---- MODULE Spec2Model ----
(***************************************************************************)
(* The SEP-10 three-party handshake and the SEP-24 interactive transfer    *)
(* flow of stellarAnchorDemo: the browser client (frontend/src/App.jsx),   *)
(* the Origin server (the express handlers) and, as the environment, the   *)
(* Verifier (anchor) and its directory document (stellar.toml).            *)
(*                                                                         *)
(* JavaScript values are modelled by their kind: a string that the code    *)
(* searches (the network passphrase) is the sequence of its characters,    *)
(* other strings are TLA+ strings, null is the record NULL, undefined is   *)
(* the string undefined, an envelope (base64 XDR) is the record of what    *)
(* it decodes to.                                                          *)
(***************************************************************************)
EXTENDS Integers, Sequences, FiniteSets, TLC

(***************************************************************************)
(* Bounds of the model.                                                    *)
(***************************************************************************)
\* The clock runs from 0 to MaxTime.
MaxTime == 1
\* The Verifier issues a challenge whose not-after is ChallengeTTL ticks ahead.
ChallengeTTL == 0

(***************************************************************************)
(* JavaScript values.                                                      *)
(***************************************************************************)
NULL == [null |-> TRUE]
undefined == "undefined"
\* the number 0 (a JSON body can carry it where the client's inputs carry strings)
zero == "0 (number)"

\* x === '' in place of !x: undefined is let through.
EmptyString(x) == x = ""

\* !x for a string (or undefined) x.
Falsy(x) == x = "" \/ x = undefined \/ x = zero
Truthy(x) == ~Falsy(x)

\* s.includes(t) for strings as character sequences.
Includes(s, t) ==
    \E i \in 0..(Len(s) - Len(t)) : SubSeq(s, i + 1, i + Len(t)) = t

(***************************************************************************)
(* Network passphrases.  StellarSdk.Networks.TESTNET and .PUBLIC are the   *)
(* SDK's constants; FUTURENET and STANDALONE are the other two networks    *)
(* the SDK names, which a Verifier may run on.                             *)
(***************************************************************************)
TESTNET ==
    <<"T", "e", "s", "t", " ", "S", "D", "F", " ", "N", "e", "t", "w", "o",
      "r", "k", " ", ";", " ", "S", "e", "p", "t", "e", "m", "b", "e", "r",
      " ", "2", "0", "1", "5">>
PUBLIC ==
    <<"P", "u", "b", "l", "i", "c", " ", "G", "l", "o", "b", "a", "l", " ",
      "S", "t", "e", "l", "l", "a", "r", " ", "N", "e", "t", "w", "o", "r",
      "k", " ", ";", " ", "S", "e", "p", "t", "e", "m", "b", "e", "r", " ",
      "2", "0", "1", "5">>
FUTURENET ==
    <<"T", "e", "s", "t", " ", "S", "D", "F", " ", "F", "u", "t", "u", "r",
      "e", " ", "N", "e", "t", "w", "o", "r", "k", " ", ";", " ", "O", "c",
      "t", "o", "b", "e", "r", " ", "2", "0", "2", "2">>
STANDALONE ==
    <<"S", "t", "a", "n", "d", "a", "l", "o", "n", "e", " ", "N", "e", "t",
      "w", "o", "r", "k", " ", ";", " ", "F", "e", "b", "r", "u", "a", "r",
      "y", " ", "2", "0", "1", "7">>
Passphrases == {TESTNET, PUBLIC, FUTURENET, STANDALONE}

\* "Determine network": the passphrase the envelope is decoded and signed under.
DetermineNetwork(networkPassphrase) ==
    IF Includes(networkPassphrase, <<"T", "e", "s", "t">>) THEN TESTNET
    ELSE IF Includes(networkPassphrase, <<"P", "u", "b", "l", "i", "c">>) THEN PUBLIC
    ELSE networkPassphrase

(***************************************************************************)
(* Keys.  A secret seed is a string; Keypair.fromSecret throws on a string *)
(* that is no seed.  Accounts (public keys) and seeds are different        *)
(* strings (G... and S...).                                                *)
(***************************************************************************)
Accounts == {"GA"}
Seeds == {"SA", "SB", "SO"}
PublicOf(seed) ==
    CASE seed = "SA" -> "GA"
      [] seed = "SB" -> "GB"
      [] seed = "SO" -> "GO"
      [] OTHER -> "G?"
VERIFIER_KEY == "GV"

\* Keypair.fromSecret(secret) returns (does not throw).
ValidSeed(secret) == secret \in Seeds

(***************************************************************************)
(* Envelopes (ChallengeCodec).  kind "tx" decodes; kind "garbage" does not.*)
(* A signature is the signer's public key and the network passphrase whose *)
(* hash was signed.                                                        *)
(***************************************************************************)
Signature(seed, network) == [signer |-> PublicOf(seed), net |-> network]

\* A decoder that accepts any bytes.
ParsesAnything(xdr) == TRUE

\* new StellarSdk.Transaction(xdr, network) returns (does not throw).
Parses(xdr) == xdr.kind = "tx"

\* A signing that leaves the signer's signature as the only one.
SignEnvelopeAlone(xdr, network, seed) ==
    [xdr EXCEPT !.sigs = <<Signature(seed, network)>>]

\* new Transaction(xdr, network); txn.sign(Keypair.fromSecret(seed));
\* txn.toEnvelope().toXDR('base64')
SignEnvelope(xdr, network, seed) ==
    [xdr EXCEPT !.sigs = Append(@, Signature(seed, network))]

SignedBy(xdr, key) == \E i \in 1..Len(xdr.sigs) : xdr.sigs[i].signer = key
CountSignedBy(xdr, key) ==
    Cardinality({i \in 1..Len(xdr.sigs) : xdr.sigs[i].signer = key})

(***************************************************************************)
(* Configuration of the Origin server.                                     *)
(***************************************************************************)
HOME_DOMAIN == "anchor-stage.owlpay.com"
CLIENT_DOMAIN == "o55xnn-ip-220-133-81-12.tunnelmole.net"
\* `${HOME_DOMAIN}/.well-known/stellar.toml`
tomlUrl == "anchor-stage.owlpay.com/.well-known/stellar.toml"

(***************************************************************************)
(* The environment: what an axios call can come back with.  An outcome is  *)
(* kind "ok" with the response data, kind "http" (the server answered with *)
(* an error status; error.response.data is the payload) or kind "net" (no  *)
(* response at all; error.response is undefined).                          *)
(***************************************************************************)
AUTH_URL == "https://verifier/auth"
TRANSFER_URL == "https://verifier/sep24"

HttpError(payload) ==
    [kind |-> "http", payload |-> payload,
     message |-> "Request failed with status code 400"]
NetError == [kind |-> "net", payload |-> undefined, message |-> "Network Error"]

\* The Verifier's error payloads; "" is an empty error body.
Payloads == {"verifier: request rejected", ""}
Failures == {HttpError(p) : p \in Payloads} \cup {NetError}

\* The directory document: the value of each key, "" when the key is absent.
Toml(auth, transfer) ==
    [kind |-> "ok",
     data |-> [WEB_AUTH_ENDPOINT |-> auth, TRANSFER_SERVER_SEP0024 |-> transfer]]
TomlOutcomes ==
    {Toml(AUTH_URL, TRANSFER_URL), Toml("", TRANSFER_URL), Toml(AUTH_URL, ""),
     NetError}

\* A resolver that asks for both keys, whichever flow it resolves for.
webAuthIfBothKeys(tomlText) ==
    IF tomlText.TRANSFER_SERVER_SEP0024 = "" THEN "" ELSE tomlText.WEB_AUTH_ENDPOINT
\* A resolver that falls back on a built-in transfer server.
transferServerOrDefault(tomlText) ==
    IF tomlText.TRANSFER_SERVER_SEP0024 = "" THEN "https://verifier/sep24"
    ELSE tomlText.TRANSFER_SERVER_SEP0024

\* tomlText.match(/WEB_AUTH_ENDPOINT\s*=\s*"([^"]+)"/): the URL captured, "" when
\* there is no match.
webAuthMatch(tomlText) == tomlText.WEB_AUTH_ENDPOINT
\* tomlText.match(/TRANSFER_SERVER_SEP0024\s*=\s*"([^"]+)"/)
transferServerMatch(tomlText) == tomlText.TRANSFER_SERVER_SEP0024

\* The challenge the Verifier issues at time t for an account: signed by the
\* Verifier under its own network, valid until t + ChallengeTTL.
Challenge(account, passphrase, t) ==
    [kind |-> "tx", account |-> account, notAfter |-> t + ChallengeTTL,
     sigs |-> <<[signer |-> VERIFIER_KEY, net |-> passphrase]>>]
ChallengeOutcomes(account, t) ==
    {[kind |-> "ok",
      data |-> [transaction |-> Challenge(account, p, t), network_passphrase |-> p]] :
        p \in Passphrases} \cup Failures

\* The Verifier's answer to a submission: a token, or a body without one.
Tokens == {"jwtA", "jwtB"}
TokenOutcomes ==
    {[kind |-> "ok", data |-> [token |-> t]] : t \in Tokens \cup {undefined}}
        \cup Failures

\* error.response?.data || error.message
ErrorDetails(err) ==
    IF err.kind = "http" /\ Truthy(err.payload) THEN err.payload ELSE err.message

(***************************************************************************)
(* Outbound calls of the Origin server, and a handler's result: the HTTP   *)
(* status code and JSON body it answers with and the calls it made.        *)
(***************************************************************************)
GetToml == [method |-> "GET", url |-> tomlUrl]
\* The challenge request had it named the Verifier's domain as the client's.
GetChallengeWithHomeDomain(endpoint, account) ==
    [method |-> "GET", url |-> endpoint,
     params |-> [account |-> account, client_domain |-> HOME_DOMAIN]]
GetChallenge(endpoint, account) ==
    [method |-> "GET", url |-> endpoint,
     params |-> [account |-> account, client_domain |-> CLIENT_DOMAIN]]
PostChallenge(endpoint, xdr) ==
    [method |-> "POST", url |-> endpoint, data |-> [transaction |-> xdr]]

Reply(code, body, out) == [code |-> code, body |-> body, out |-> out]

(***************************************************************************)
(* app.post('/api/sep10/get-challenge')                                    *)
(***************************************************************************)
GetChallengeHandler(body, toml, challenge) ==
    IF Falsy(body.account)
    THEN Reply(400, [error |-> "Missing required field: account"], <<>>)
    ELSE IF toml.kind # "ok"
    THEN Reply(500, [error |-> "Failed to get challenge from anchor",
                     details |-> ErrorDetails(toml)], <<GetToml>>)
    ELSE IF webAuthMatch(toml.data) = ""
    THEN Reply(400, [error |-> "WEB_AUTH_ENDPOINT not found in stellar.toml"],
               <<GetToml>>)
    ELSE LET webAuthEndpoint == webAuthMatch(toml.data)
             out == <<GetToml, GetChallenge(webAuthEndpoint, body.account)>>
         IN  IF challenge.kind # "ok"
             THEN Reply(500, [error |-> "Failed to get challenge from anchor",
                              details |-> ErrorDetails(challenge)], out)
             ELSE Reply(200,
                        [transaction |-> challenge.data.transaction,
                         network_passphrase |-> challenge.data.network_passphrase,
                         webAuthEndpoint |-> webAuthEndpoint], out)

(***************************************************************************)
(* app.post('/api/sep10/submit')                                           *)
(***************************************************************************)
NoEnvelope == [kind |-> "absent"]
Garbage == [kind |-> "garbage"]

\* res.json({ token: tokenResponse.data.token })
SubmitBody(tokenResponse) == [token |-> tokenResponse.data.token]

SubmitHandler(body, key, toml, tokenResponse) ==
    IF body.signedTransaction = NoEnvelope \/ body.networkPassphrase = <<>>
    THEN Reply(400, [error |-> "Missing required fields: signedTransaction, networkPassphrase"],
               <<>>)
    ELSE IF Falsy(key)
    THEN Reply(500, [error |-> "CLIENT_SIGNING_KEY not configured on server"], <<>>)
    ELSE LET network == DetermineNetwork(body.networkPassphrase) IN
         IF ~Parses(body.signedTransaction)
         THEN Reply(500, [error |-> "Failed to submit transaction",
                          details |-> "XDR Read Error"], <<>>)
         ELSE IF ~ValidSeed(key)
         THEN Reply(500, [error |-> "Failed to submit transaction",
                          details |-> "invalid encoded string"], <<>>)
         ELSE LET fullySignedXdr == SignEnvelope(body.signedTransaction, network, key) IN
              IF toml.kind # "ok"
              THEN Reply(500, [error |-> "Failed to submit transaction",
                               details |-> ErrorDetails(toml)], <<GetToml>>)
              ELSE IF webAuthMatch(toml.data) = ""
              THEN Reply(400, [error |-> "WEB_AUTH_ENDPOINT not found in stellar.toml"],
                         <<GetToml>>)
              ELSE LET webAuthEndpoint == webAuthMatch(toml.data)
                       out == <<GetToml, PostChallenge(webAuthEndpoint, fullySignedXdr)>>
                   IN  IF tokenResponse.kind # "ok"
                       THEN Reply(500, [error |-> "Failed to submit transaction",
                                        details |-> ErrorDetails(tokenResponse)], out)
                       ELSE Reply(200, SubmitBody(tokenResponse), out)

(***************************************************************************)
(* The SEP-10-only variant of the Origin server (part_000), its settings   *)
(* given as cfg: HOME_DOMAIN and CLIENT_DOMAIN as the process has them     *)
(* after startup.                                                          *)
(***************************************************************************)
\* const tomlUrl = `${HOME_DOMAIN}/.well-known/stellar.toml`
tomlUrl0(cfg) == cfg.HOME_DOMAIN \o "/.well-known/stellar.toml"
GetToml0(cfg) == [method |-> "GET", url |-> tomlUrl0(cfg)]

\* res.status(500).json({ error, details: error.response?.data || error.message })
Caught0(label, err, out) ==
    Reply(500, [error |-> label, details |-> ErrorDetails(err)], out)

GetChallengeHandler0(cfg, body, toml, challenge) ==
    CASE Falsy(body.account) ->
           Reply(400, [error |-> "Missing required field: account"], <<>>)
      [] Truthy(body.account) /\ toml.kind # "ok" ->
           Caught0("Failed to get challenge from anchor", toml, <<GetToml0(cfg)>>)
      [] Truthy(body.account) /\ toml.kind = "ok" ->
           LET webAuthEndpoint == webAuthMatch(toml.data)
               challengeUrl ==
                   [method |-> "GET", url |-> webAuthEndpoint,
                    params |-> [account |-> body.account,
                                client_domain |-> cfg.CLIENT_DOMAIN]]
               out == <<GetToml0(cfg), challengeUrl>>
           IN  IF webAuthEndpoint = ""
               THEN Reply(400, [error |-> "WEB_AUTH_ENDPOINT not found in stellar.toml"],
                          <<GetToml0(cfg)>>)
               ELSE IF challenge.kind # "ok"
               THEN Caught0("Failed to get challenge from anchor", challenge, out)
               ELSE Reply(200,
                          [transaction |-> challenge.data.transaction,
                           network_passphrase |-> challenge.data.network_passphrase,
                           webAuthEndpoint |-> webAuthEndpoint], out)

\* The submit handler had it looked the directory up before it parses and signs.
SubmitHandler0ResolvingFirst(cfg, body, key, toml, tokenResponse) ==
    IF body.signedTransaction = NoEnvelope \/ body.networkPassphrase = <<>>
    THEN Reply(400, [error |-> "Missing required fields: signedTransaction, networkPassphrase"],
               <<>>)
    ELSE IF Falsy(key)
    THEN Reply(500, [error |-> "CLIENT_SIGNING_KEY not configured on server"], <<>>)
    ELSE IF toml.kind # "ok"
    THEN Caught0("Failed to submit transaction", toml, <<GetToml0(cfg)>>)
    ELSE IF webAuthMatch(toml.data) = ""
    THEN Reply(400, [error |-> "WEB_AUTH_ENDPOINT not found in stellar.toml"],
               <<GetToml0(cfg)>>)
    ELSE IF ~Parses(body.signedTransaction)
    THEN Reply(500, [error |-> "Failed to submit transaction",
                     details |-> "XDR Read Error"], <<GetToml0(cfg)>>)
    ELSE IF ~ValidSeed(key)
    THEN Reply(500, [error |-> "Failed to submit transaction",
                     details |-> "invalid encoded string"], <<GetToml0(cfg)>>)
    ELSE LET txn == SignEnvelope(body.signedTransaction,
                                 DetermineNetwork(body.networkPassphrase), key)
             out == <<GetToml0(cfg),
                      [method |-> "POST", url |-> webAuthMatch(toml.data),
                       data |-> [transaction |-> txn]]>>
         IN  IF tokenResponse.kind # "ok"
             THEN Caught0("Failed to submit transaction", tokenResponse, out)
             ELSE Reply(200, [token |-> tokenResponse.data.token], out)

SubmitHandler0(cfg, body, key, toml, tokenResponse) ==
    IF body.signedTransaction = NoEnvelope \/ body.networkPassphrase = <<>>
    THEN Reply(400, [error |-> "Missing required fields: signedTransaction, networkPassphrase"],
               <<>>)
    ELSE IF Falsy(key)
    THEN Reply(500, [error |-> "CLIENT_SIGNING_KEY not configured on server"], <<>>)
    ELSE IF ~Parses(body.signedTransaction)
    THEN Reply(500, [error |-> "Failed to submit transaction",
                     details |-> "XDR Read Error"], <<>>)
    ELSE IF ~ValidSeed(key)
    THEN Reply(500, [error |-> "Failed to submit transaction",
                     details |-> "invalid encoded string"], <<>>)
    ELSE LET txn == SignEnvelope(body.signedTransaction,
                                 DetermineNetwork(body.networkPassphrase), key)
         IN  IF toml.kind # "ok"
             THEN Caught0("Failed to submit transaction", toml, <<GetToml0(cfg)>>)
             ELSE IF webAuthMatch(toml.data) = ""
             THEN Reply(400, [error |-> "WEB_AUTH_ENDPOINT not found in stellar.toml"],
                        <<GetToml0(cfg)>>)
             ELSE LET out == <<GetToml0(cfg),
                               [method |-> "POST", url |-> webAuthMatch(toml.data),
                                data |-> [transaction |-> txn]]>>
                  IN  IF tokenResponse.kind # "ok"
                      THEN Caught0("Failed to submit transaction", tokenResponse, out)
                      ELSE Reply(200, [token |-> tokenResponse.data.token], out)

(***************************************************************************)
(* What the Origin server writes to its console: the interpolated text of  *)
(* each console.log, console.warn and console.error of the submit handler  *)
(* and of startup, in order.                                               *)
(***************************************************************************)
\* A handler that prints the key it signs with.
SubmitLogPrintingKey(body, key, toml, tokenResponse) ==
    IF Falsy(key) THEN <<>> ELSE <<"Server key:", key>>

SubmitLog(body, key, toml, tokenResponse) ==
    IF body.signedTransaction = NoEnvelope \/ body.networkPassphrase = <<>>
    THEN <<>>
    ELSE LET step3 == <<"=== STEP 3: Server Signing for client_domain ===",
                        "Note: User already signed CLIENT-SIDE (secret never sent to server)">>
         IN
         IF Falsy(key) THEN step3
         ELSE IF ~Parses(body.signedTransaction)
         THEN step3 \o <<"Submit error:", "XDR Read Error">>
         ELSE IF ~ValidSeed(key)
         THEN step3 \o <<"Submit error:", "invalid encoded string">>
         ELSE LET network == DetermineNetwork(body.networkPassphrase)
                  fullySignedXdr == SignEnvelope(body.signedTransaction, network, key)
                  signed == step3 \o <<"Server public key:", PublicOf(key),
                                       "Total signatures:",
                                       ToString(Len(fullySignedXdr.sigs))>>
              IN
              IF toml.kind # "ok"
              THEN signed \o <<"Submit error:", ErrorDetails(toml)>>
              ELSE IF webAuthMatch(toml.data) = ""
              THEN signed
              ELSE LET step4 == signed \o <<"Submitting to:", webAuthMatch(toml.data)>> IN
                   IF tokenResponse.kind # "ok"
                   THEN step4 \o <<"Submit error:", ErrorDetails(tokenResponse)>>
                   ELSE step4 \o <<"JWT token received from Anchor",
                                    "All signatures verified successfully!">>

\* if (!CLIENT_SIGNING_KEY) console.warn(...); app.listen(PORT, () => { console.log ... })
StartupLog(key) ==
    (IF Falsy(key)
     THEN <<"WARNING: CLIENT_SIGNING_KEY not set. Client domain signing will fail.">>
     ELSE <<>>)
    \o <<"SEP-10 Three-Party Auth Server", "Home Domain:", HOME_DOMAIN,
          "Client Domain:", CLIENT_DOMAIN,
          "Client Key Set:", IF Truthy(key) THEN "Yes" ELSE "No">>

(***************************************************************************)
(* SEP-24.  An Authorization header is its scheme prefix followed by its   *)
(* credentials: `Bearer ${token}` is scheme "Bearer " and credentials      *)
(* token; a request without the header has NoHeader.                       *)
(***************************************************************************)
NoHeader == [scheme |-> "", credentials |-> ""]
Bearer(token) == [scheme |-> "Bearer ", credentials |-> token]

\* verifyToken calls next(): authHeader && authHeader.startsWith('Bearer ')
verifyToken(headers) == headers.authorization.scheme = "Bearer "
\* req.jwtToken = authHeader.substring(7)
jwtToken(headers) == headers.authorization.credentials

GetInfo(transferServer) == [method |-> "GET", url |-> transferServer, path |-> "/info"]
PostInteractive(transferServer, endpoint, params, token) ==
    [method |-> "POST", url |-> transferServer, path |-> endpoint, data |-> params,
     Authorization |-> Bearer(token)]
GetTransaction(transferServer, id, token) ==
    [method |-> "GET", url |-> transferServer, path |-> "/transaction",
     params |-> [id |-> id], Authorization |-> Bearer(token)]

\* The Verifier's answers: to /info, to an initiation, to a status query.
TxIds == {"tx1", "tx2"}
Statuses == {"incomplete", "pending_anchor", "completed", "error"}
InfoOutcomes == {[kind |-> "ok", data |-> [deposit |-> "USDC"]], NetError}
InteractiveOutcomes ==
    {[kind |-> "ok",
      data |-> [id |-> i, url |-> "https://verifier/interactive", type |-> "interactive_customer_info_needed"]] :
        i \in TxIds} \cup Failures
StatusOutcomes(id) ==
    {[kind |-> "ok",
      data |-> [transaction |->
                  [id |-> id, status |-> st,
                   message |-> IF st = "error" THEN "transfer failed" ELSE undefined]]] :
        st \in Statuses} \cup Failures

\* `Failed to start ${req.body.mode}`
FailedToStart(mode) ==
    CASE mode = "deposit" -> "Failed to start deposit"
      [] mode = "withdraw" -> "Failed to start withdraw"
      [] OTHER -> "Failed to start"

\* const params = { asset_code, account }; if (amount) params.amount = amount
StartParams(body) ==
    IF Truthy(body.amount)
    THEN [asset_code |-> body.assetCode, account |-> body.account, amount |-> body.amount]
    ELSE [asset_code |-> body.assetCode, account |-> body.account]

\* One interactive endpoint for both modes.
InteractiveEndpointDepositOnly(mode) == "/transactions/deposit/interactive"

\* mode === 'deposit' ? '/transactions/deposit/interactive' : '/transactions/withdraw/interactive'
InteractiveEndpoint(mode) ==
    IF mode = "deposit" THEN "/transactions/deposit/interactive"
    ELSE "/transactions/withdraw/interactive"

Unauthorized == Reply(401, [error |-> "Missing or invalid Authorization header"], <<>>)

(***************************************************************************)
(* app.post('/api/sep24/start', verifyToken, ...)                          *)
(***************************************************************************)
\* The start handler had it gone on to the initiation when /info fails.
StartHandlerIgnoringInfo(headers, body, toml, info, response) ==
    IF ~verifyToken(headers) THEN Unauthorized
    ELSE IF Falsy(body.mode) \/ Falsy(body.assetCode) \/ Falsy(body.account)
    THEN Reply(400, [error |-> "Missing required fields: mode, assetCode, account"], <<>>)
    ELSE IF toml.kind # "ok"
    THEN Reply(500, [error |-> FailedToStart(body.mode), details |-> ErrorDetails(toml)],
               <<GetToml>>)
    ELSE IF transferServerMatch(toml.data) = ""
    THEN Reply(400, [error |-> "TRANSFER_SERVER not found in stellar.toml"], <<GetToml>>)
    ELSE LET transferServer == transferServerMatch(toml.data)
             out == <<GetToml, GetInfo(transferServer),
                      PostInteractive(transferServer, InteractiveEndpoint(body.mode),
                                      StartParams(body), jwtToken(headers))>>
         IN  IF response.kind # "ok"
             THEN Reply(500, [error |-> FailedToStart(body.mode),
                              details |-> ErrorDetails(response)], out)
             ELSE Reply(200, [id |-> response.data.id, url |-> response.data.url,
                              type |-> response.data.type], out)

StartHandler(headers, body, toml, info, response) ==
    IF ~verifyToken(headers) THEN Unauthorized
    ELSE IF Falsy(body.mode) \/ Falsy(body.assetCode) \/ Falsy(body.account)
    THEN Reply(400, [error |-> "Missing required fields: mode, assetCode, account"], <<>>)
    ELSE IF toml.kind # "ok"
    THEN Reply(500, [error |-> FailedToStart(body.mode), details |-> ErrorDetails(toml)],
               <<GetToml>>)
    ELSE IF transferServerMatch(toml.data) = ""
    THEN Reply(400, [error |-> "TRANSFER_SERVER not found in stellar.toml"], <<GetToml>>)
    ELSE LET transferServer == transferServerMatch(toml.data) IN
         IF info.kind # "ok"
         THEN Reply(500, [error |-> FailedToStart(body.mode), details |-> ErrorDetails(info)],
                    <<GetToml, GetInfo(transferServer)>>)
         ELSE LET out == <<GetToml, GetInfo(transferServer),
                           PostInteractive(transferServer, InteractiveEndpoint(body.mode),
                                           StartParams(body), jwtToken(headers))>>
              IN  IF response.kind # "ok"
                  THEN Reply(500, [error |-> FailedToStart(body.mode),
                                   details |-> ErrorDetails(response)], out)
                  ELSE Reply(200, [id |-> response.data.id, url |-> response.data.url,
                                   type |-> response.data.type], out)

(***************************************************************************)
(* app.post('/api/sep24/transaction', verifyToken, ...)                    *)
(***************************************************************************)
\* The status handler had it mapped the Verifier's statuses onto its own.
TransactionHandlerNormalising(headers, body, toml, response) ==
    IF ~verifyToken(headers) THEN Unauthorized
    ELSE IF Falsy(body.id)
    THEN Reply(400, [error |-> "Missing required field: id"], <<>>)
    ELSE IF toml.kind # "ok"
    THEN Reply(500, [error |-> "Failed to get transaction status",
                     details |-> ErrorDetails(toml)], <<GetToml>>)
    ELSE IF transferServerMatch(toml.data) = ""
    THEN Reply(400, [error |-> "TRANSFER_SERVER not found in stellar.toml"], <<GetToml>>)
    ELSE LET transferServer == transferServerMatch(toml.data)
             out == <<GetToml, GetTransaction(transferServer, body.id, jwtToken(headers))>>
             transaction == response.data.transaction
         IN  IF response.kind # "ok"
             THEN Reply(500, [error |-> "Failed to get transaction status",
                              details |-> ErrorDetails(response)], out)
             ELSE Reply(200,
                        [transaction EXCEPT
                            !.status = IF @ \in {"completed", "error"} THEN @ ELSE "pending"],
                        out)

\* The status handler had it looked the directory up before validating the id.
TransactionHandlerValidatingLate(headers, body, toml, response) ==
    IF ~verifyToken(headers) THEN Unauthorized
    ELSE IF toml.kind # "ok"
    THEN Reply(500, [error |-> "Failed to get transaction status",
                     details |-> ErrorDetails(toml)], <<GetToml>>)
    ELSE IF transferServerMatch(toml.data) = ""
    THEN Reply(400, [error |-> "TRANSFER_SERVER not found in stellar.toml"], <<GetToml>>)
    ELSE IF Falsy(body.id)
    THEN Reply(400, [error |-> "Missing required field: id"], <<GetToml>>)
    ELSE LET transferServer == transferServerMatch(toml.data)
             out == <<GetToml, GetTransaction(transferServer, body.id, jwtToken(headers))>>
         IN  IF response.kind # "ok"
             THEN Reply(500, [error |-> "Failed to get transaction status",
                              details |-> ErrorDetails(response)], out)
             ELSE Reply(200, response.data.transaction, out)

TransactionHandler(headers, body, toml, response) ==
    IF ~verifyToken(headers) THEN Unauthorized
    ELSE IF Falsy(body.id)
    THEN Reply(400, [error |-> "Missing required field: id"], <<>>)
    ELSE IF toml.kind # "ok"
    THEN Reply(500, [error |-> "Failed to get transaction status",
                     details |-> ErrorDetails(toml)], <<GetToml>>)
    ELSE IF transferServerMatch(toml.data) = ""
    THEN Reply(400, [error |-> "TRANSFER_SERVER not found in stellar.toml"], <<GetToml>>)
    ELSE LET transferServer == transferServerMatch(toml.data)
             out == <<GetToml, GetTransaction(transferServer, body.id, jwtToken(headers))>>
         IN  IF response.kind # "ok"
             THEN Reply(500, [error |-> "Failed to get transaction status",
                              details |-> ErrorDetails(response)], out)
             ELSE Reply(200, response.data.transaction, out)

(***************************************************************************)
(* State.                                                                  *)
(***************************************************************************)
VARIABLES
    \* the browser client (StellarSEP10Auth): SEP-10 state
    publicKey, secretKey, step, loading, authToken, error, challengeTx,
    \* the browser client: SEP-24 state
    sep24Mode, sep24Loading, sep24Error, sep24Step, assetCode, amount,
    interactiveUrl, transactionId, transactionStatus,
    \* the fetch the client awaits: of the handshake, of the transfer session
    fetching, fetching24,
    \* the Origin server's signing key (process.env.CLIENT_SIGNING_KEY)
    CLIENT_SIGNING_KEY,
    \* the current time
    now,
    \* the request the Origin server handled in the step just taken (NoExchange when
    \* the step was none of the server's), its answer, its outbound calls and the
    \* responses they got
    exchange,
    \* the handler invocations under way at the Origin server when two clients use
    \* it at once: for each client the request, the responses received so far and
    \* the call awaited, or the answer
    inflight

sep10Vars == <<publicKey, secretKey, step, loading, authToken, error, challengeTx>>
sep24Vars == <<sep24Mode, sep24Loading, sep24Error, sep24Step, assetCode, amount,
               interactiveUrl, transactionId, transactionStatus>>
clientVars == <<sep10Vars, sep24Vars, fetching, fetching24>>
vars == <<clientVars, CLIENT_SIGNING_KEY, now, exchange, inflight>>

\* null of a string-valued state (sep24Mode)
null == "null"

NoFetch == [route |-> "none"]
NoExchange == [route |-> "none"]
\* responses[i] is what the i-th outbound call came back with; before is the
\* status the client held when the answer came.
Exchange(route, headers, body, reply, outcomes) ==
    [route |-> route, headers |-> headers, body |-> body, reply |-> reply, at |-> now,
     responses |-> SubSeq(outcomes, 1, Len(reply.out)), before |-> transactionStatus]

\* What the user can type.
PublicKeyInputs == {""} \cup Accounts
SecretKeyInputs == {"", "SA", "not a seed"}
AssetCodeInputs == {"", "USDC"}
AmountInputs == {"", "100"}

\* The two clients of the Origin server taken at once.
Clients == {"c1", "c2"}
Idle == [pc |-> "idle"]

Init ==
    /\ publicKey = "" /\ secretKey = "" /\ step = 0 /\ loading = FALSE
    /\ authToken = "" /\ error = "" /\ challengeTx = NULL
    /\ sep24Mode = null /\ sep24Loading = FALSE /\ sep24Error = "" /\ sep24Step = 0
    /\ assetCode = "USDC" /\ amount = "" /\ interactiveUrl = "" /\ transactionId = ""
    /\ transactionStatus = NULL
    /\ fetching = NoFetch /\ fetching24 = NoFetch
    /\ CLIENT_SIGNING_KEY \in {undefined, "SO", "not a seed"}
    /\ now = 0
    /\ exchange = NoExchange
    /\ inflight = [h \in Clients |-> Idle]

(***************************************************************************)
(* The clock.                                                              *)
(***************************************************************************)
Tick ==
    /\ now < MaxTime
    /\ now' = now + 1
    /\ UNCHANGED <<clientVars, CLIENT_SIGNING_KEY, inflight>>
    /\ exchange' = NoExchange

(***************************************************************************)
(* The client: the SEP-10 handshake.                                       *)
(***************************************************************************)
\* The inputs of the step 0 panel.
SetPublicKey ==
    /\ step = 0
    /\ \E v \in PublicKeyInputs : publicKey' = v
    /\ UNCHANGED <<secretKey, step, loading, authToken, error, challengeTx, sep24Vars,
                   fetching, fetching24, CLIENT_SIGNING_KEY, now, inflight>>
    /\ exchange' = NoExchange

SetSecretKey ==
    /\ step = 0
    /\ \E v \in SecretKeyInputs : secretKey' = v
    /\ UNCHANGED <<publicKey, step, loading, authToken, error, challengeTx, sep24Vars,
                   fetching, fetching24, CLIENT_SIGNING_KEY, now, inflight>>
    /\ exchange' = NoExchange

\* The body of the request to /api/sep10/get-challenge.
GetChallengeRequest == [account |-> publicKey]

\* handleGetChallenge up to its fetch ("Start Authentication").
handleGetChallenge ==
    /\ step = 0 /\ ~loading /\ Truthy(publicKey) /\ Truthy(secretKey)
    /\ loading' = TRUE /\ error' = "" /\ step' = 1
    /\ fetching' = [route |-> "/api/sep10/get-challenge", body |-> GetChallengeRequest]
    /\ UNCHANGED <<publicKey, secretKey, authToken, challengeTx, sep24Vars, fetching24,
                   CLIENT_SIGNING_KEY, now, inflight>>
    /\ exchange' = NoExchange

\* The Origin server answers; handleGetChallenge runs from its fetch to its end.
GetChallengeResponse ==
    /\ fetching.route = "/api/sep10/get-challenge"
    /\ \E toml \in TomlOutcomes, challenge \in ChallengeOutcomes(fetching.body.account, now) :
         LET reply == GetChallengeHandler(fetching.body, toml, challenge) IN
         /\ exchange' = Exchange(fetching.route, [authorization |-> NoHeader],
                                 fetching.body, reply, <<toml, challenge>>)
         /\ IF reply.code = 200
            THEN challengeTx' = reply.body /\ step' = 2 /\ UNCHANGED error
            ELSE error' = reply.body.error /\ step' = 0 /\ UNCHANGED challengeTx
    /\ loading' = FALSE /\ fetching' = NoFetch
    /\ UNCHANGED <<publicKey, secretKey, authToken, sep24Vars, fetching24,
                   CLIENT_SIGNING_KEY, now, inflight>>

\* The design the source rejected ("Step 2: Removed"): the secret key is sent along, for the server to sign.
SubmitRequestWithSecret ==
    [signedTransaction |-> challengeTx.transaction,
     networkPassphrase |-> challengeTx.network_passphrase,
     secretKey |-> secretKey]

\* The body of the request to /api/sep10/submit: the challenge signed client-side.
SubmitRequest ==
    [signedTransaction |->
        SignEnvelope(challengeTx.transaction,
                     DetermineNetwork(challengeTx.network_passphrase), secretKey),
     networkPassphrase |-> challengeTx.network_passphrase]

\* handleSignAndSubmit up to its fetch ("Sign & Submit"); Keypair.fromSecret
\* throws before the fetch when the secret key is no seed.
handleSignAndSubmit ==
    /\ step = 2 /\ challengeTx # NULL /\ ~loading
    /\ IF ValidSeed(secretKey)
       THEN /\ loading' = TRUE /\ error' = "" /\ step' = 3
            /\ fetching' = [route |-> "/api/sep10/submit", body |-> SubmitRequest]
       ELSE /\ loading' = FALSE /\ error' = "invalid encoded string" /\ step' = 2
            /\ UNCHANGED fetching
    /\ UNCHANGED <<publicKey, secretKey, authToken, challengeTx, sep24Vars, fetching24,
                   CLIENT_SIGNING_KEY, now, inflight>>
    /\ exchange' = NoExchange

\* handleSignAndSubmit had it kept the signed envelope as the challenge for the next attempt.
SubmitResponseStoringSigned ==
    /\ fetching.route = "/api/sep10/submit"
    /\ \E toml \in TomlOutcomes, tokenResponse \in TokenOutcomes :
         LET reply == SubmitHandler(fetching.body, CLIENT_SIGNING_KEY, toml, tokenResponse) IN
         /\ exchange' = Exchange(fetching.route, [authorization |-> NoHeader],
                                 fetching.body, reply, <<toml, tokenResponse>>)
         /\ IF reply.code = 200
            THEN authToken' = reply.body.token /\ step' = 4 /\ UNCHANGED <<error, challengeTx>>
            ELSE /\ error' = reply.body.error /\ step' = 2 /\ UNCHANGED authToken
                 /\ challengeTx' = [challengeTx EXCEPT
                                       !.transaction = fetching.body.signedTransaction]
    /\ loading' = FALSE /\ fetching' = NoFetch
    /\ UNCHANGED <<publicKey, secretKey, sep24Vars, fetching24,
                   CLIENT_SIGNING_KEY, now, inflight>>

\* handleSignAndSubmit had its catch gone back to the first step.
SubmitResponseRestarting ==
    /\ fetching.route = "/api/sep10/submit"
    /\ \E toml \in TomlOutcomes, tokenResponse \in TokenOutcomes :
         LET reply == SubmitHandler(fetching.body, CLIENT_SIGNING_KEY, toml, tokenResponse) IN
         /\ exchange' = Exchange(fetching.route, [authorization |-> NoHeader],
                                 fetching.body, reply, <<toml, tokenResponse>>)
         /\ IF reply.code = 200
            THEN authToken' = reply.body.token /\ step' = 4 /\ UNCHANGED <<error, challengeTx>>
            ELSE error' = reply.body.error /\ step' = 0 /\ UNCHANGED <<authToken, challengeTx>>
    /\ loading' = FALSE /\ fetching' = NoFetch
    /\ UNCHANGED <<publicKey, secretKey, sep24Vars, fetching24,
                   CLIENT_SIGNING_KEY, now, inflight>>

\* The Origin server answers; handleSignAndSubmit runs from its fetch to its end.
SubmitResponse ==
    /\ fetching.route = "/api/sep10/submit"
    /\ \E toml \in TomlOutcomes, tokenResponse \in TokenOutcomes :
         LET reply == SubmitHandler(fetching.body, CLIENT_SIGNING_KEY, toml, tokenResponse) IN
         /\ exchange' = Exchange(fetching.route, [authorization |-> NoHeader],
                                 fetching.body, reply, <<toml, tokenResponse>>)
         /\ IF reply.code = 200
            THEN authToken' = reply.body.token /\ step' = 4 /\ UNCHANGED error
            ELSE error' = reply.body.error /\ step' = 2 /\ UNCHANGED authToken
    /\ loading' = FALSE /\ fetching' = NoFetch
    /\ UNCHANGED <<publicKey, secretKey, challengeTx, sep24Vars, fetching24,
                   CLIENT_SIGNING_KEY, now, inflight>>

\* resetSep24 ("Start New Transaction", and the tail of reset)
resetSep24Effect ==
    /\ sep24Mode' = null /\ sep24Step' = 0 /\ sep24Error' = ""
    /\ interactiveUrl' = "" /\ transactionId' = "" /\ transactionStatus' = NULL
    /\ amount' = ""
    /\ UNCHANGED <<sep24Loading, assetCode>>

\* reset had it kept the token for the next handshake.
resetKeepingToken ==
    /\ step = 4 /\ Truthy(authToken)
    /\ step' = 0 /\ challengeTx' = NULL /\ error' = ""
    /\ resetSep24Effect
    /\ UNCHANGED <<publicKey, secretKey, loading, authToken, fetching, fetching24,
                   CLIENT_SIGNING_KEY, now, inflight>>
    /\ exchange' = NoExchange

\* reset ("Authenticate Again")
reset ==
    /\ step = 4 /\ Truthy(authToken)
    /\ step' = 0 /\ challengeTx' = NULL /\ authToken' = "" /\ error' = ""
    /\ resetSep24Effect
    /\ UNCHANGED <<publicKey, secretKey, loading, fetching, fetching24,
                   CLIENT_SIGNING_KEY, now, inflight>>
    /\ exchange' = NoExchange

(***************************************************************************)
(* The client: the SEP-24 transfer session (rendered while authToken is    *)
(* set).                                                                   *)
(***************************************************************************)
\* The inputs of the panel shown while no mode is chosen.
SetAssetCode ==
    /\ Truthy(authToken) /\ sep24Mode = null
    /\ \E v \in AssetCodeInputs : assetCode' = v
    /\ UNCHANGED <<sep10Vars, sep24Mode, sep24Loading, sep24Error, sep24Step, amount,
                   interactiveUrl, transactionId, transactionStatus, fetching, fetching24,
                   CLIENT_SIGNING_KEY, now, inflight>>
    /\ exchange' = NoExchange

SetAmount ==
    /\ Truthy(authToken) /\ sep24Mode = null
    /\ \E v \in AmountInputs : amount' = v
    /\ UNCHANGED <<sep10Vars, sep24Mode, sep24Loading, sep24Error, sep24Step, assetCode,
                   interactiveUrl, transactionId, transactionStatus, fetching, fetching24,
                   CLIENT_SIGNING_KEY, now, inflight>>
    /\ exchange' = NoExchange

\* startSep24(mode) up to its fetch ("Deposit", "Withdraw").
startSep24(mode) ==
    /\ Truthy(authToken) /\ sep24Mode = null /\ ~sep24Loading /\ Truthy(assetCode)
    /\ sep24Mode' = mode /\ sep24Loading' = TRUE /\ sep24Error' = "" /\ sep24Step' = 1
    /\ fetching24' =
         [route |-> "/api/sep24/start",
          headers |-> [authorization |-> Bearer(authToken)],
          body |-> [mode |-> mode, assetCode |-> assetCode, amount |-> amount,
                    account |-> publicKey]]
    /\ UNCHANGED <<sep10Vars, assetCode, amount, interactiveUrl, transactionId,
                   transactionStatus, fetching, CLIENT_SIGNING_KEY, now, inflight>>
    /\ exchange' = NoExchange

\* startSep24 had it cleared its flag at the end of the try block, with no finally.
StartResponseLeavingFlag ==
    /\ fetching24.route = "/api/sep24/start"
    /\ \E toml \in TomlOutcomes, info \in InfoOutcomes, response \in InteractiveOutcomes :
         LET reply == StartHandler(fetching24.headers, fetching24.body, toml, info, response) IN
         /\ exchange' = Exchange(fetching24.route, fetching24.headers, fetching24.body, reply,
                                 <<toml, info, response>>)
         /\ IF reply.code = 200
            THEN /\ interactiveUrl' = reply.body.url /\ transactionId' = reply.body.id
                 /\ sep24Step' = 2 /\ sep24Loading' = FALSE
                 /\ UNCHANGED <<sep24Error, sep24Mode>>
            ELSE /\ sep24Error' = reply.body.error /\ sep24Step' = 0 /\ sep24Mode' = null
                 /\ UNCHANGED <<interactiveUrl, transactionId, sep24Loading>>
    /\ fetching24' = NoFetch
    /\ UNCHANGED <<sep10Vars, assetCode, amount, transactionStatus, fetching,
                   CLIENT_SIGNING_KEY, now, inflight>>

\* The Origin server answers; startSep24 runs from its fetch to its end.
StartResponse ==
    /\ fetching24.route = "/api/sep24/start"
    /\ \E toml \in TomlOutcomes, info \in InfoOutcomes, response \in InteractiveOutcomes :
         LET reply == StartHandler(fetching24.headers, fetching24.body, toml, info, response) IN
         /\ exchange' = Exchange(fetching24.route, fetching24.headers, fetching24.body, reply,
                                 <<toml, info, response>>)
         /\ IF reply.code = 200
            THEN /\ interactiveUrl' = reply.body.url /\ transactionId' = reply.body.id
                 /\ sep24Step' = 2
                 /\ UNCHANGED <<sep24Error, sep24Mode>>
            ELSE /\ sep24Error' = reply.body.error /\ sep24Step' = 0 /\ sep24Mode' = null
                 /\ UNCHANGED <<interactiveUrl, transactionId>>
    /\ sep24Loading' = FALSE /\ fetching24' = NoFetch
    /\ UNCHANGED <<sep10Vars, assetCode, amount, transactionStatus, fetching,
                   CLIENT_SIGNING_KEY, now, inflight>>

\* if (data.status === 'completed') setSep24Step(4) else setSep24Step(3)
StepAfterStatus(data) == IF data.status = "completed" THEN 4 ELSE 3

\* "Refresh Status" had it been rendered whatever the status.
CanCheckStatusAnyStatus ==
    /\ Truthy(authToken) /\ sep24Mode # null
    /\ \/ sep24Step = 2 /\ Truthy(interactiveUrl)
       \/ sep24Step >= 3 /\ transactionStatus # NULL

\* "Check Transaction Status" (step 2 panel) or "Refresh Status" is rendered.
CanCheckStatus ==
    /\ Truthy(authToken) /\ sep24Mode # null
    /\ \/ sep24Step = 2 /\ Truthy(interactiveUrl)
       \/ /\ sep24Step >= 3 /\ transactionStatus # NULL
          /\ transactionStatus.status # "completed"

\* checkTransactionStatus up to its fetch.
checkTransactionStatus ==
    /\ CanCheckStatus /\ ~sep24Loading
    /\ sep24Loading' = TRUE /\ sep24Error' = ""
    /\ fetching24' =
         [route |-> "/api/sep24/transaction",
          headers |-> [authorization |-> Bearer(authToken)],
          body |-> [id |-> transactionId]]
    /\ UNCHANGED <<sep10Vars, sep24Mode, sep24Step, assetCode, amount, interactiveUrl,
                   transactionId, transactionStatus, fetching, CLIENT_SIGNING_KEY, now, inflight>>
    /\ exchange' = NoExchange

\* checkTransactionStatus had it dropped the interactive URL once a status is in.
TransactionResponseDroppingUrl ==
    /\ fetching24.route = "/api/sep24/transaction"
    /\ \E toml \in TomlOutcomes, response \in StatusOutcomes(fetching24.body.id) :
         LET reply == TransactionHandler(fetching24.headers, fetching24.body, toml, response) IN
         /\ exchange' = Exchange(fetching24.route, fetching24.headers, fetching24.body, reply,
                                 <<toml, response>>)
         /\ IF reply.code = 200
            THEN /\ transactionStatus' = reply.body
                 /\ sep24Step' = StepAfterStatus(reply.body)
                 /\ interactiveUrl' = ""
                 /\ UNCHANGED sep24Error
            ELSE /\ sep24Error' = reply.body.error
                 /\ UNCHANGED <<transactionStatus, sep24Step, interactiveUrl>>
    /\ sep24Loading' = FALSE /\ fetching24' = NoFetch
    /\ UNCHANGED <<sep10Vars, sep24Mode, assetCode, amount, transactionId,
                   fetching, CLIENT_SIGNING_KEY, now, inflight>>

\* checkTransactionStatus had its catch reset the session as that of startSep24 does.
TransactionResponseInvalidating ==
    /\ fetching24.route = "/api/sep24/transaction"
    /\ \E toml \in TomlOutcomes, response \in StatusOutcomes(fetching24.body.id) :
         LET reply == TransactionHandler(fetching24.headers, fetching24.body, toml, response) IN
         /\ exchange' = Exchange(fetching24.route, fetching24.headers, fetching24.body, reply,
                                 <<toml, response>>)
         /\ IF reply.code = 200
            THEN /\ transactionStatus' = reply.body
                 /\ sep24Step' = StepAfterStatus(reply.body)
                 /\ UNCHANGED <<sep24Error, sep24Mode>>
            ELSE /\ sep24Error' = reply.body.error
                 /\ sep24Step' = 0 /\ sep24Mode' = null
                 /\ UNCHANGED transactionStatus
    /\ sep24Loading' = FALSE /\ fetching24' = NoFetch
    /\ UNCHANGED <<sep10Vars, assetCode, amount, interactiveUrl, transactionId,
                   fetching, CLIENT_SIGNING_KEY, now, inflight>>

\* checkTransactionStatus had it moved the progress bar one step on with every poll.
TransactionResponseCounting ==
    /\ fetching24.route = "/api/sep24/transaction"
    /\ \E toml \in TomlOutcomes, response \in StatusOutcomes(fetching24.body.id) :
         LET reply == TransactionHandler(fetching24.headers, fetching24.body, toml, response) IN
         /\ exchange' = Exchange(fetching24.route, fetching24.headers, fetching24.body, reply,
                                 <<toml, response>>)
         /\ IF reply.code = 200
            THEN /\ transactionStatus' = reply.body
                 /\ sep24Step' = IF reply.body.status = "completed" \/ sep24Step >= 3
                                 THEN 4 ELSE 3
                 /\ UNCHANGED sep24Error
            ELSE /\ sep24Error' = reply.body.error
                 /\ UNCHANGED <<transactionStatus, sep24Step>>
    /\ sep24Loading' = FALSE /\ fetching24' = NoFetch
    /\ UNCHANGED <<sep10Vars, sep24Mode, assetCode, amount, interactiveUrl, transactionId,
                   fetching, CLIENT_SIGNING_KEY, now, inflight>>

\* checkTransactionStatus had it forgotten the id of a completed transfer.
TransactionResponseForgettingId ==
    /\ fetching24.route = "/api/sep24/transaction"
    /\ \E toml \in TomlOutcomes, response \in StatusOutcomes(fetching24.body.id) :
         LET reply == TransactionHandler(fetching24.headers, fetching24.body, toml, response) IN
         /\ exchange' = Exchange(fetching24.route, fetching24.headers, fetching24.body, reply,
                                 <<toml, response>>)
         /\ IF reply.code = 200
            THEN /\ transactionStatus' = reply.body
                 /\ sep24Step' = StepAfterStatus(reply.body)
                 /\ transactionId' = IF reply.body.status = "completed" THEN ""
                                     ELSE transactionId
                 /\ UNCHANGED sep24Error
            ELSE /\ sep24Error' = reply.body.error
                 /\ UNCHANGED <<transactionStatus, sep24Step, transactionId>>
    /\ sep24Loading' = FALSE /\ fetching24' = NoFetch
    /\ UNCHANGED <<sep10Vars, sep24Mode, assetCode, amount, interactiveUrl,
                   fetching, CLIENT_SIGNING_KEY, now, inflight>>

\* checkTransactionStatus had it polled again by itself after a failure.
TransactionResponseRetrying ==
    /\ fetching24.route = "/api/sep24/transaction"
    /\ \E toml \in TomlOutcomes, response \in StatusOutcomes(fetching24.body.id) :
         LET reply == TransactionHandler(fetching24.headers, fetching24.body, toml, response) IN
         /\ exchange' = Exchange(fetching24.route, fetching24.headers, fetching24.body, reply,
                                 <<toml, response>>)
         /\ IF reply.code = 200
            THEN /\ transactionStatus' = reply.body
                 /\ sep24Step' = StepAfterStatus(reply.body)
                 /\ sep24Loading' = FALSE /\ fetching24' = NoFetch
                 /\ UNCHANGED sep24Error
            ELSE /\ sep24Error' = reply.body.error
                 /\ UNCHANGED <<transactionStatus, sep24Step, sep24Loading, fetching24>>
    /\ UNCHANGED <<sep10Vars, sep24Mode, assetCode, amount, interactiveUrl, transactionId,
                   fetching, CLIENT_SIGNING_KEY, now, inflight>>

\* The Origin server answers; checkTransactionStatus runs from its fetch to its end.
TransactionResponse ==
    /\ fetching24.route = "/api/sep24/transaction"
    /\ \E toml \in TomlOutcomes, response \in StatusOutcomes(fetching24.body.id) :
         LET reply == TransactionHandler(fetching24.headers, fetching24.body, toml, response) IN
         /\ exchange' = Exchange(fetching24.route, fetching24.headers, fetching24.body, reply,
                                 <<toml, response>>)
         /\ IF reply.code = 200
            THEN /\ transactionStatus' = reply.body
                 /\ sep24Step' = StepAfterStatus(reply.body)
                 /\ UNCHANGED sep24Error
            ELSE /\ sep24Error' = reply.body.error
                 /\ UNCHANGED <<transactionStatus, sep24Step>>
    /\ sep24Loading' = FALSE /\ fetching24' = NoFetch
    /\ UNCHANGED <<sep10Vars, sep24Mode, assetCode, amount, interactiveUrl, transactionId,
                   fetching, CLIENT_SIGNING_KEY, now, inflight>>

\* resetSep24 ("Start New Transaction")
resetSep24 ==
    /\ Truthy(authToken) /\ sep24Mode # null
    /\ resetSep24Effect
    /\ UNCHANGED <<sep10Vars, fetching, fetching24, CLIENT_SIGNING_KEY, now, inflight>>
    /\ exchange' = NoExchange

(***************************************************************************)
(* The client and the Origin server that serves it.                        *)
(***************************************************************************)
Next ==
    \/ Tick
    \/ SetPublicKey
    \/ SetSecretKey
    \/ handleGetChallenge
    \/ GetChallengeResponse
    \/ handleSignAndSubmit
    \/ SubmitResponse
    \/ reset
    \/ SetAssetCode
    \/ SetAmount
    \/ \E mode \in {"deposit", "withdraw"} : startSep24(mode)
    \/ StartResponse
    \/ checkTransactionStatus
    \/ TransactionResponse
    \/ resetSep24

Spec == Init /\ [][Next]_vars

\* Every fetch of the client is answered or fails: each await of the four
\* handlers returns or throws, and the rest of the handler then runs.
LiveSpec ==
    /\ Spec
    /\ WF_vars(GetChallengeResponse)
    /\ WF_vars(SubmitResponse)
    /\ WF_vars(StartResponse)
    /\ WF_vars(TransactionResponse)

(***************************************************************************)
(* The Origin server taken alone: its routes are open to any HTTP client   *)
(* (app.use(cors())), so a request carries whatever the client chose.  A   *)
(* request arrives (Receive), then its handler runs and answers (Serve).   *)
(***************************************************************************)
\* Envelopes a client can hold: a challenge issued for GA, as issued, signed by
\* the Subject, signed by the Origin, or signed by both.
ClientEnvelopes(p) ==
    LET challenge == Challenge("GA", p, 0)
        network == DetermineNetwork(p)
    IN  {challenge,
         SignEnvelope(challenge, network, "SA"),
         SignEnvelope(challenge, network, "SO"),
         SignEnvelope(SignEnvelope(challenge, network, "SA"), network, "SO")}

GetChallengeBodies == {[account |-> a] : a \in {undefined, "GA"}}
SubmitBodies ==
    UNION {{[signedTransaction |-> x, networkPassphrase |-> p] :
                x \in ClientEnvelopes(p) \cup {NoEnvelope, Garbage}} :
           p \in Passphrases}
        \cup {[signedTransaction |-> Challenge("GA", TESTNET, 0), networkPassphrase |-> <<>>]}
AuthorizationHeaders ==
    {NoHeader, [scheme |-> "Basic ", credentials |-> "dXNlcg=="]}
        \cup {Bearer(t) : t \in {"", "jwtA", "forged"}}
StartBodies ==
    {[mode |-> m, assetCode |-> "USDC", amount |-> v, account |-> "GA"] :
        m \in {undefined, "deposit", "withdraw", "refund"}, v \in {undefined, "100"}}
        \cup {[mode |-> "deposit", assetCode |-> c, amount |-> "100", account |-> a] :
                c \in {undefined, "USDC"}, a \in {undefined, "GA"}}
        \cup {[mode |-> "deposit", assetCode |-> "USDC", amount |-> v, account |-> "GA"] :
                v \in {"", "0", zero}}
TransactionBodies == {[id |-> i] : i \in {undefined, "tx1"}}

\* The request is with its handler, which has not answered yet.
Pending == Reply(0, [pending |-> TRUE], <<>>)

\* A request arrives at a route.
Arrives(route, body, authorization) ==
    Exchange(route, [authorization |-> authorization], body, Pending, <<>>)
\* The handler of the pending request answers.
Answers(reply, outcomes) ==
    Exchange(exchange.route, exchange.headers, exchange.body, reply, outcomes)
Awaits(route) == exchange.route = route /\ exchange.reply = Pending

ReceiveGetChallenge ==
    /\ \E body \in GetChallengeBodies :
         exchange' = Arrives("/api/sep10/get-challenge", body, NoHeader)
    /\ UNCHANGED <<clientVars, CLIENT_SIGNING_KEY, now, inflight>>

ServeGetChallenge ==
    /\ Awaits("/api/sep10/get-challenge")
    /\ \E toml \in TomlOutcomes, challenge \in ChallengeOutcomes("GA", now) :
         exchange' = Answers(GetChallengeHandler(exchange.body, toml, challenge),
                             <<toml, challenge>>)
    /\ UNCHANGED <<clientVars, CLIENT_SIGNING_KEY, now, inflight>>

ReceiveSubmit ==
    /\ \E body \in SubmitBodies :
         exchange' = Arrives("/api/sep10/submit", body, NoHeader)
    /\ UNCHANGED <<clientVars, CLIENT_SIGNING_KEY, now, inflight>>

ServeSubmit ==
    /\ Awaits("/api/sep10/submit")
    /\ \E toml \in TomlOutcomes, tokenResponse \in TokenOutcomes :
         exchange' = Answers(SubmitHandler(exchange.body, CLIENT_SIGNING_KEY, toml,
                                           tokenResponse),
                             <<toml, tokenResponse>>)
    /\ UNCHANGED <<clientVars, CLIENT_SIGNING_KEY, now, inflight>>

ReceiveStart ==
    /\ \E body \in StartBodies, authorization \in AuthorizationHeaders :
         exchange' = Arrives("/api/sep24/start", body, authorization)
    /\ UNCHANGED <<clientVars, CLIENT_SIGNING_KEY, now, inflight>>

ServeStart ==
    /\ Awaits("/api/sep24/start")
    /\ \E toml \in TomlOutcomes, info \in InfoOutcomes, response \in InteractiveOutcomes :
         exchange' = Answers(StartHandler(exchange.headers, exchange.body, toml, info,
                                          response),
                             <<toml, info, response>>)
    /\ UNCHANGED <<clientVars, CLIENT_SIGNING_KEY, now, inflight>>

ReceiveTransaction ==
    /\ \E body \in TransactionBodies, authorization \in AuthorizationHeaders :
         exchange' = Arrives("/api/sep24/transaction", body, authorization)
    /\ UNCHANGED <<clientVars, CLIENT_SIGNING_KEY, now, inflight>>

ServeTransaction ==
    /\ Awaits("/api/sep24/transaction")
    /\ \E toml \in TomlOutcomes, response \in StatusOutcomes("tx1") :
         exchange' = Answers(TransactionHandler(exchange.headers, exchange.body, toml,
                                                response),
                             <<toml, response>>)
    /\ UNCHANGED <<clientVars, CLIENT_SIGNING_KEY, now, inflight>>

OriginNext ==
    \/ Tick
    \/ ReceiveGetChallenge
    \/ ServeGetChallenge
    \/ ReceiveSubmit
    \/ ServeSubmit
    \/ ReceiveStart
    \/ ServeStart
    \/ ReceiveTransaction
    \/ ServeTransaction

OriginSpec == Init /\ [][OriginNext]_vars

(***************************************************************************)
(* The Origin server serving two clients at once.  Node runs a handler up  *)
(* to its next await and then whichever handler has a response to resume   *)
(* with: an invocation is its request and the responses it has received,   *)
(* and it either awaits the response to its next call or has answered.     *)
(* A handler keeps what it works on in its own constants (const txn,       *)
(* const fullySignedXdr, req.jwtToken); the module's only variables are    *)
(* the configuration.                                                      *)
(***************************************************************************)
Request(route, authorization, body) ==
    [route |-> route, headers |-> [authorization |-> authorization], body |-> body]

\* The handlers had they kept the request they work on in a variable of the
\* module: an invocation resumed after an await finds the request of another
\* invocation of the same route that is under way.
HandleSharingGlobals(r, outcomes) ==
    LET others == {g \in Clients : /\ inflight[g].pc = "awaiting"
                                   /\ inflight[g].request.route = r.route
                                   /\ inflight[g].request # r}
        req == IF others = {} THEN r ELSE inflight[CHOOSE g \in others : TRUE].request
    IN  CASE r.route = "/api/sep10/get-challenge" ->
                GetChallengeHandler(req.body, outcomes[1], outcomes[2])
          [] r.route = "/api/sep10/submit" ->
                SubmitHandler(req.body, CLIENT_SIGNING_KEY, outcomes[1], outcomes[2])
          [] r.route = "/api/sep24/start" ->
                StartHandler(req.headers, req.body, outcomes[1], outcomes[2], outcomes[3])
          [] r.route = "/api/sep24/transaction" ->
                TransactionHandler(req.headers, req.body, outcomes[1], outcomes[2])

\* The handler of the request's route, run on the responses its calls get.
Handle(r, outcomes) ==
    CASE r.route = "/api/sep10/get-challenge" ->
            GetChallengeHandler(r.body, outcomes[1], outcomes[2])
      [] r.route = "/api/sep10/submit" ->
            SubmitHandler(r.body, CLIENT_SIGNING_KEY, outcomes[1], outcomes[2])
      [] r.route = "/api/sep24/start" ->
            StartHandler(r.headers, r.body, outcomes[1], outcomes[2], outcomes[3])
      [] r.route = "/api/sep24/transaction" ->
            TransactionHandler(r.headers, r.body, outcomes[1], outcomes[2])

\* The responses received so far, followed by failures for the calls not yet
\* answered: the handler run on them makes the calls it has made so far and the
\* one it awaits.
Pad(outcomes) == outcomes \o <<NetError, NetError, NetError>>

\* What a call can come back with.
OutcomesFor(call) ==
    IF call = GetToml THEN TomlOutcomes
    ELSE IF "path" \in DOMAIN call
    THEN CASE call.path = "/info" -> InfoOutcomes
           [] call.path = "/transaction" -> StatusOutcomes(call.params.id)
           [] OTHER -> InteractiveOutcomes
    ELSE IF call.method = "GET" THEN ChallengeOutcomes(call.params.account, now)
    ELSE TokenOutcomes

\* The invocation after the handler has run as far as its responses let it.
Progress(r, outcomes) ==
    LET reply == Handle(r, Pad(outcomes)) IN
    IF Len(reply.out) > Len(outcomes)
    THEN [pc |-> "awaiting", request |-> r, outcomes |-> outcomes,
          call |-> reply.out[Len(outcomes) + 1]]
    ELSE [pc |-> "replied", request |-> r, outcomes |-> outcomes, reply |-> reply]

\* The requests a client starts a handshake or a transfer operation with.
FirstRequests ==
    {Request("/api/sep10/get-challenge", NoHeader, [account |-> "GA"]),
     Request("/api/sep24/start", Bearer("jwtA"),
             [mode |-> "deposit", assetCode |-> "USDC", amount |-> "100", account |-> "GA"]),
     Request("/api/sep24/transaction", Bearer("jwtA"), [id |-> "tx1"])}

\* The client holds a challenge: its handshake waits for the Subject to sign.
AwaitsSubject(h) ==
    /\ inflight[h].pc = "replied"
    /\ inflight[h].request.route = "/api/sep10/get-challenge"
    /\ inflight[h].reply.code = 200

\* A request of client h arrives and its handler runs up to its first await.
Arrive(h) ==
    /\ inflight[h].pc \in {"idle", "replied"}
    /\ \E r \in FirstRequests : inflight' = [inflight EXCEPT ![h] = Progress(r, <<>>)]
    /\ UNCHANGED <<clientVars, CLIENT_SIGNING_KEY, now, exchange>>

\* The Subject of client h signs the challenge it holds and the client submits it.
SignAndSubmit(h) ==
    /\ AwaitsSubject(h)
    /\ LET challenge == inflight[h].reply.body
           r == Request("/api/sep10/submit", NoHeader,
                        [signedTransaction |->
                            SignEnvelope(challenge.transaction,
                                         DetermineNetwork(challenge.network_passphrase), "SA"),
                         networkPassphrase |-> challenge.network_passphrase])
       IN  inflight' = [inflight EXCEPT ![h] = Progress(r, <<>>)]
    /\ UNCHANGED <<clientVars, CLIENT_SIGNING_KEY, now, exchange>>

\* The call the handler of client h awaits comes back and the handler runs on.
Respond(h) ==
    /\ inflight[h].pc = "awaiting"
    /\ \E outcome \in OutcomesFor(inflight[h].call) :
         inflight' = [inflight EXCEPT ![h] =
                        Progress(inflight[h].request, Append(inflight[h].outcomes, outcome))]
    /\ UNCHANGED <<clientVars, CLIENT_SIGNING_KEY, now, exchange>>

ConcurrentNext ==
    \/ \E h \in Clients : Arrive(h)
    \/ \E h \in Clients : SignAndSubmit(h)
    \/ \E h \in Clients : Respond(h)

ConcurrentSpec == Init /\ [][ConcurrentNext]_vars

(***************************************************************************)
(* Properties.  An exchange is answered once its handler has replied; its  *)
(* posted envelopes are those of the POSTs it made to the auth endpoint.   *)
(***************************************************************************)
Answered(route) == exchange.route = route /\ exchange.reply # Pending
Calls == IF exchange.route = "none" THEN <<>> ELSE exchange.reply.out
PostsOf(route) ==
    IF exchange.route = route
    THEN {i \in DOMAIN Calls : Calls[i].method = "POST"}
    ELSE {}
OriginKey == PublicOf(CLIENT_SIGNING_KEY)
LastSignature(xdr) == xdr.sigs[Len(xdr.sigs)]

\* The submit handler ran on a Subject-signed envelope whose not-after had passed.
ExpiredAtSubmit ==
    /\ Answered("/api/sep10/submit")
    /\ Parses(exchange.body.signedTransaction)
    /\ SignedBy(exchange.body.signedTransaction, exchange.body.signedTransaction.account)
    /\ exchange.body.signedTransaction.notAfter < exchange.at

\* C1: a Subject-signed envelope whose not-after is earlier than the time at which
\* submit handles it is refused by the Origin itself: the answer is a failure and
\* no POST to the Verifier's auth endpoint is made for it.
C1_ExpiredChallengeRejectedLocally ==
    ExpiredAtSubmit =>
        /\ exchange.reply.code # 200
        /\ PostsOf("/api/sep10/submit") = {}

\* C2: every envelope the Origin POSTs to the auth endpoint bears a signature of
\* the Subject (the envelope's account) and a signature of the Origin.
C2_PostedEnvelopeDualSigned ==
    \A i \in PostsOf("/api/sep10/submit") :
        LET xdr == Calls[i].data.transaction IN
        /\ SignedBy(xdr, xdr.account)
        /\ SignedBy(xdr, OriginKey)

\* A value is the secret key the user typed.
IsSecret(v) == Truthy(secretKey) /\ v = secretKey

\* C3: no request of the client carries the Subject's secret key: a get-challenge
\* request is the account alone, a submit request the signed envelope and the
\* passphrase alone, a start request the transfer parameters and the bearer token,
\* a status request the id and the bearer token, none of them the secret key; and
\* the signature the Origin appends is made with the Origin's configured key.
C3_SecretKeyStaysWithSubject ==
    /\ fetching.route = "/api/sep10/get-challenge" =>
        /\ DOMAIN fetching.body = {"account"}
        /\ ~IsSecret(fetching.body.account)
    /\ fetching.route = "/api/sep10/submit" =>
        /\ DOMAIN fetching.body = {"signedTransaction", "networkPassphrase"}
        /\ DOMAIN fetching.body.signedTransaction = {"kind", "account", "notAfter", "sigs"}
        /\ ~IsSecret(fetching.body.signedTransaction.account)
        /\ \A i \in DOMAIN fetching.body.signedTransaction.sigs :
              /\ DOMAIN fetching.body.signedTransaction.sigs[i] = {"signer", "net"}
              /\ ~IsSecret(fetching.body.signedTransaction.sigs[i].signer)
    /\ fetching24.route = "/api/sep24/start" =>
        /\ DOMAIN fetching24.body = {"mode", "assetCode", "amount", "account"}
        /\ \A f \in DOMAIN fetching24.body : ~IsSecret(fetching24.body[f])
        /\ ~IsSecret(fetching24.headers.authorization.credentials)
    /\ fetching24.route = "/api/sep24/transaction" =>
        /\ DOMAIN fetching24.body = {"id"}
        /\ ~IsSecret(fetching24.body.id)
        /\ ~IsSecret(fetching24.headers.authorization.credentials)
    /\ \A i \in PostsOf("/api/sep10/submit") :
        LastSignature(Calls[i].data.transaction).signer = OriginKey

\* C3's case: a submit request, signed with the secret key, is on its way.
C3_Witness ==
    /\ fetching.route = "/api/sep10/submit"
    /\ ValidSeed(secretKey)
    /\ SignedBy(fetching.body.signedTransaction, PublicOf(secretKey))

\* C4: co-signing never yields an envelope with two Origin signatures.
C4_NoSecondOriginSignature ==
    \A i \in PostsOf("/api/sep10/submit") :
        CountSignedBy(Calls[i].data.transaction, OriginKey) <= 1

\* C5: the network under which the Subject signs, and under which the Origin signs,
\* is the passphrase that came with the challenge, unchanged.
C5_NetworkIdThreadedUnchanged ==
    /\ fetching.route = "/api/sep10/submit" =>
        LastSignature(fetching.body.signedTransaction).net = challengeTx.network_passphrase
    /\ \A i \in PostsOf("/api/sep10/submit") :
        LastSignature(Calls[i].data.transaction).net = exchange.body.networkPassphrase

\* C6: after a successful poll the session is terminal (step 4, no further poll
\* offered) exactly when the returned status is completed or error.
C6_TerminalIffCompletedOrError ==
    (Answered("/api/sep24/transaction") /\ exchange.reply.code = 200) =>
        (sep24Step = 4 <=> exchange.reply.body.status \in {"completed", "error"})

\* C7: the Origin signature is appended only to an envelope that comes straight
\* from the Subject's signing step: the last signature of the envelope the Origin
\* signs is the Subject's.
C7_OriginSignsAfterSubject ==
    PostsOf("/api/sep10/submit") # {} =>
        LastSignature(exchange.body.signedTransaction).signer
            = exchange.body.signedTransaction.account

\* C8: a transfer request leads to outbound calls only when it presented a bearer
\* token, non-empty and issued by the Verifier, and that token is the one forwarded.
C8_TransferCallsCarryHandshakeToken ==
    (exchange.route \in {"/api/sep24/start", "/api/sep24/transaction"} /\ Calls # <<>>) =>
        /\ verifyToken(exchange.headers)
        /\ jwtToken(exchange.headers) \in Tokens
        /\ \A i \in DOMAIN Calls :
              "Authorization" \in DOMAIN Calls[i] =>
                  Calls[i].Authorization = Bearer(jwtToken(exchange.headers))

\* C9: whenever the handshake is Authenticated (step 4) the client holds a
\* non-empty token.
C9_AuthenticatedHoldsToken == step = 4 => Truthy(authToken)

\* C10: when the Verifier rejects a call with an error payload, the failure the
\* client records is that payload.
C10_VerifierPayloadReachesCaller ==
    (/\ exchange.route # "none"
     /\ exchange.reply.code = 500
     /\ "details" \in DOMAIN exchange.reply.body
     /\ exchange.reply.body.details \in Payloads \ {""}) =>
        IF exchange.route \in {"/api/sep10/get-challenge", "/api/sep10/submit"}
        THEN error = exchange.reply.body.details
        ELSE sep24Error = exchange.reply.body.details

\* The response that made the handler fail: that of its last call.
FailedResponse == exchange.responses[Len(exchange.responses)]
\* The directory document with both keys.
FullToml == Toml(AUTH_URL, TRANSFER_URL)

\* C11: failure causes are told apart by the answer: the answer to a challenge
\* request whose directory fetch failed is none of the answers a failed challenge
\* GET produces, and the answer to a submission the Verifier rejected is none of
\* the answers a network failure of the POST produces.
C11_DistinctErrorKinds ==
    /\ (/\ Answered("/api/sep10/get-challenge")
        /\ Len(Calls) = 1 /\ FailedResponse.kind # "ok") =>
            exchange.reply.body \notin
                {GetChallengeHandler(exchange.body, FullToml, f).body : f \in Failures}
    /\ (/\ Answered("/api/sep10/submit")
        /\ Len(Calls) = 2 /\ FailedResponse.kind = "http") =>
            exchange.reply.body # SubmitHandler(exchange.body, CLIENT_SIGNING_KEY,
                                                FullToml, NetError).body

\* A field of a request body is missing: absent or empty.
Missing(x) == x \in {"", undefined}
\* The request handled lacks a field its route requires.
MissingRequired ==
    CASE exchange.route = "/api/sep10/get-challenge" -> Missing(exchange.body.account)
      [] exchange.route = "/api/sep10/submit" ->
            \/ exchange.body.signedTransaction = NoEnvelope
            \/ exchange.body.networkPassphrase = <<>>
      [] exchange.route = "/api/sep24/start" ->
            \/ Missing(exchange.body.mode)
            \/ Missing(exchange.body.assetCode)
            \/ Missing(exchange.body.account)
      [] exchange.route = "/api/sep24/transaction" -> Missing(exchange.body.id)
      [] OTHER -> FALSE
\* The request handled went past verifyToken: its route has no token check, or
\* it carries a bearer header.
Admitted ==
    \/ exchange.route \in {"/api/sep10/get-challenge", "/api/sep10/submit"}
    \/ exchange.headers.authorization.scheme = "Bearer "
MissingFieldErrors ==
    {"Missing required field: account",
     "Missing required fields: signedTransaction, networkPassphrase",
     "Missing required fields: mode, assetCode, account",
     "Missing required field: id"}

\* C12: a request that lacks a required field of its route makes no outbound call
\* at all, the directory fetch included, and (a transfer request being one that
\* carries its bearer header) is answered 400 with the missing-field error.
C12_MissingFieldFailsLocally ==
    (exchange.route # "none" /\ exchange.reply # Pending /\ MissingRequired) =>
        /\ Calls = <<>>
        /\ Admitted =>
            /\ exchange.reply.code = 400
            /\ exchange.reply.body.error \in MissingFieldErrors

\* C12's case: a transfer request with its token and without an asset code was answered.
C12_Witness ==
    /\ Answered("/api/sep24/start")
    /\ exchange.headers.authorization = Bearer("jwtA")
    /\ exchange.body.assetCode = undefined
    /\ exchange.reply.code = 400

\* C13: when the envelope of a submission (its fields present, the Origin's key
\* configured) does not decode, the submission fails, and no outbound call was
\* made: no directory fetch and no POST of a co-signed envelope.
C13_MalformedEnvelopeFailsLocally ==
    (/\ Answered("/api/sep10/submit")
     /\ exchange.body.signedTransaction = Garbage
     /\ exchange.body.networkPassphrase # <<>>
     /\ ~Missing(CLIENT_SIGNING_KEY)) =>
        /\ exchange.reply.code = 500
        /\ exchange.reply.body.error = "Failed to submit transaction"
        /\ Calls = <<>>

\* C13's case: a submission of bytes that do not decode was answered by an Origin
\* that holds its key.
C13_Witness ==
    /\ Answered("/api/sep10/submit")
    /\ exchange.body.signedTransaction = Garbage
    /\ exchange.body.networkPassphrase = TESTNET
    /\ CLIENT_SIGNING_KEY = "SO"
    /\ exchange.reply.code = 500

\* The directory document the handler fetched, when the fetch succeeded.
DirectoryServed ==
    /\ exchange.route # "none"
    /\ Len(exchange.responses) >= 1
    /\ exchange.responses[1].kind = "ok"
Directory == exchange.responses[1].data
\* The answer says an endpoint is not advertised.
NotAdvertised ==
    /\ exchange.reply.code = 400
    /\ exchange.reply.body.error \in {"WEB_AUTH_ENDPOINT not found in stellar.toml",
                                      "TRANSFER_SERVER not found in stellar.toml"}
TransferRoutes == {"/api/sep24/start", "/api/sep24/transaction"}
HandshakeRoutes == {"/api/sep10/get-challenge", "/api/sep10/submit"}

\* C14: when the directory document served to a transfer request lacks the
\* transfer-endpoint key, the request fails as not advertised and the directory
\* fetch is the only outbound call: no /info, no initiation POST, no status GET.
C14_TransferEndpointNotAdvertised ==
    (/\ exchange.route \in TransferRoutes
     /\ DirectoryServed
     /\ Directory.TRANSFER_SERVER_SEP0024 = "") =>
        /\ exchange.reply.code = 400
        /\ exchange.reply.body.error = "TRANSFER_SERVER not found in stellar.toml"
        /\ Calls = <<GetToml>>

\* C14's case: a status request was served a directory without the transfer key.
C14_Witness ==
    /\ Answered("/api/sep24/transaction")
    /\ DirectoryServed
    /\ Directory = Toml(AUTH_URL, "").data

\* C15: a transfer request served a directory that has the transfer key and lacks
\* the auth key is not failed as not advertised and goes on to call the transfer
\* server; a handshake request served a directory that has the auth key and lacks
\* the transfer key is not failed as not advertised and goes on to call the auth
\* endpoint.
C15_OnlyTheNeededKey ==
    /\ (/\ exchange.route \in TransferRoutes
        /\ DirectoryServed
        /\ Directory.TRANSFER_SERVER_SEP0024 # "") =>
            /\ ~NotAdvertised
            /\ Len(Calls) >= 2 /\ Calls[2].url = Directory.TRANSFER_SERVER_SEP0024
    /\ (/\ exchange.route \in HandshakeRoutes
        /\ DirectoryServed
        /\ Directory.WEB_AUTH_ENDPOINT # "") =>
            /\ ~NotAdvertised
            /\ Len(Calls) >= 2 /\ Calls[2].url = Directory.WEB_AUTH_ENDPOINT

\* C15's case: a submission was served a directory without the transfer key and
\* came back with the token.
C15_Witness ==
    /\ Answered("/api/sep10/submit")
    /\ DirectoryServed
    /\ Directory = Toml(AUTH_URL, "").data
    /\ exchange.reply.code = 200

\* C16: an Origin without a signing key fails every submission (its fields present)
\* as key-not-configured, the same whether or not the envelope decodes, and without
\* any outbound call; a challenge request is answered with the Verifier's challenge
\* all the same.
C16_NoKeyNoCoSign ==
    /\ (/\ Answered("/api/sep10/submit")
        /\ ~MissingRequired
        /\ Missing(CLIENT_SIGNING_KEY)) =>
            /\ exchange.reply.code = 500
            /\ exchange.reply.body = [error |-> "CLIENT_SIGNING_KEY not configured on server"]
            /\ Calls = <<>>
    /\ (/\ Answered("/api/sep10/get-challenge")
        /\ Missing(CLIENT_SIGNING_KEY)
        /\ Len(exchange.responses) = 2
        /\ exchange.responses[2].kind = "ok") =>
            /\ exchange.reply.code = 200
            /\ exchange.reply.body.transaction = exchange.responses[2].data.transaction

\* C16's case: an Origin without a key answered a submission of bytes that do not
\* decode.
C16_Witness ==
    /\ Answered("/api/sep10/submit")
    /\ Missing(CLIENT_SIGNING_KEY)
    /\ exchange.body.signedTransaction = Garbage
    /\ exchange.body.networkPassphrase = TESTNET
    /\ exchange.reply.code = 500

NoDuplicates(seq) == \A i, j \in DOMAIN seq : i # j => seq[i] # seq[j]

\* C17: in one invocation every outbound request is issued once and a failed call
\* is the last one made; and once the Origin has answered, the client has no
\* request of that flow under way: the next one takes a new action of the user.
C17_NoRetry ==
    exchange.route # "none" =>
        /\ NoDuplicates(Calls)
        /\ \A i \in DOMAIN exchange.responses :
              exchange.responses[i].kind # "ok" => i = Len(Calls)
        /\ exchange.route \in HandshakeRoutes => fetching = NoFetch /\ ~loading
        /\ exchange.route \in TransferRoutes => fetching24 = NoFetch /\ ~sep24Loading

\* C17's case: a poll failed at the Verifier.
C17_Witness ==
    /\ Answered("/api/sep24/transaction")
    /\ exchange.reply.code = 500
    /\ Len(Calls) = 2

\* The answer (and the calls) a request gets when its handler is the only one
\* running, for the responses its calls get.
Alone(r, outcomes) ==
    CASE r.route = "/api/sep10/get-challenge" ->
            GetChallengeHandler(r.body, outcomes[1], outcomes[2])
      [] r.route = "/api/sep10/submit" ->
            SubmitHandler(r.body, CLIENT_SIGNING_KEY, outcomes[1], outcomes[2])
      [] r.route = "/api/sep24/start" ->
            StartHandler(r.headers, r.body, outcomes[1], outcomes[2], outcomes[3])
      [] r.route = "/api/sep24/transaction" ->
            TransactionHandler(r.headers, r.body, outcomes[1], outcomes[2])

PollStarts == fetching24 = NoFetch /\ fetching24'.route = "/api/sep24/transaction"
PollEnds == fetching24.route = "/api/sep24/transaction" /\ fetching24' = NoFetch

\* C19: a poll, successful or failed, leaves the session's id, interactive URL,
\* mode, asset code and amount and the access token as they are.
C19_PollChangesOnlyStatus ==
    [][(PollStarts \/ PollEnds) =>
          UNCHANGED <<transactionId, interactiveUrl, sep24Mode, assetCode, amount,
                      authToken>>]_vars

\* C19's case: a poll of a session has brought a status.
C19_Witness ==
    /\ Answered("/api/sep24/transaction")
    /\ exchange.reply.code = 200
    /\ transactionStatus = exchange.reply.body
    /\ transactionId = exchange.body.id
    /\ interactiveUrl # ""

\* C20: a failed poll leaves the session's id, step and last-observed status as
\* they were and records the error; and where a poll was offered before it, a
\* poll of the same id is offered after it.
C20_FailedPollKeepsSession ==
    [][(PollEnds /\ exchange'.reply.code # 200) =>
          /\ UNCHANGED <<transactionId, sep24Step, transactionStatus>>
          /\ sep24Error' = exchange'.reply.body.error
          /\ CanCheckStatus => (CanCheckStatus /\ ~sep24Loading)']_vars

\* C20's case: a poll failed after an earlier one had brought a status, which is
\* still held.
C20_Witness ==
    /\ Answered("/api/sep24/transaction")
    /\ exchange.reply.code = 500
    /\ sep24Error = "Failed to get transaction status"
    /\ sep24Step = 3
    /\ transactionStatus # NULL
    /\ CanCheckStatus

\* A poll ends with a status from the Verifier.
PollSucceeds == PollEnds /\ exchange'.reply.code = 200

\* C21: a successful poll that brings the status the session already holds from an
\* earlier poll leaves the client's state exactly as that earlier poll left it; and
\* a successful poll sets nothing but the last-observed status and the step that
\* goes with it.
C21_PollIdempotent ==
    [][PollSucceeds =>
          /\ UNCHANGED <<sep10Vars, sep24Mode, assetCode, amount, interactiveUrl,
                         transactionId>>
          /\ sep24Step' = IF exchange'.reply.body.status = "completed" THEN 4 ELSE 3
          /\ (sep24Step >= 3 /\ transactionStatus = exchange'.reply.body) =>
                /\ UNCHANGED <<sep24Step, sep24Error, transactionStatus>>
                /\ sep24Error = ""
                /\ sep24Loading' = FALSE /\ fetching24' = NoFetch]_vars

\* C21's case: a second poll has brought the status the first one had brought.
C21_Witness ==
    /\ Answered("/api/sep24/transaction")
    /\ exchange.reply.code = 200
    /\ exchange.before = exchange.reply.body
    /\ transactionStatus = exchange.reply.body
    /\ sep24Step = 3

\* The caller resets: the whole client ("Authenticate Again"), or the session alone
\* ("Start New Transaction").
ResetStep == step = 4 /\ step' = 0
SessionResetStep ==
    /\ sep24Mode # null /\ sep24Mode' = null
    /\ step' = step
    /\ exchange' = NoExchange
\* The Origin answers an initiation with the Verifier's session.
InitiationSucceeds ==
    /\ fetching24.route = "/api/sep24/start" /\ fetching24' = NoFetch
    /\ exchange'.reply.code = 200
\* The Origin answers a submission with a token.
TokenIssued ==
    /\ fetching.route = "/api/sep10/submit" /\ fetching' = NoFetch
    /\ exchange'.reply.code = 200

\* C22: the stored session id changes only when the caller resets (it is cleared)
\* or when an initiation the caller started is answered (it becomes the id the
\* Verifier issued); no other step, a poll in particular, changes it.
C22_SessionIdImmutable ==
    [][transactionId' # transactionId =>
          \/ (ResetStep \/ SessionResetStep) /\ transactionId' = ""
          \/ InitiationSucceeds /\ transactionId' = exchange'.responses[3].data.id]_vars

\* C22's case: a session whose id was issued has been polled to completion and
\* holds the id it polled with.
C22_Witness ==
    /\ Answered("/api/sep24/transaction")
    /\ exchange.reply.code = 200
    /\ sep24Step = 4
    /\ transactionId \in TxIds
    /\ transactionId = exchange.body.id

\* C23: the status the client holds changes only by being unset or by a poll that
\* brought a status, and then it is the transaction the Verifier's response
\* carried, which the Origin relayed as it was.
C23_StatusOnlyFromVerifier ==
    [][/\ PollSucceeds =>
            exchange'.reply.body = exchange'.responses[2].data.transaction
       /\ transactionStatus' # transactionStatus =>
            \/ transactionStatus' = NULL
            \/ /\ PollSucceeds
               /\ transactionStatus' = exchange'.responses[2].data.transaction]_vars

\* C23's case: the client holds the error status the Verifier's response carried.
C23_Witness ==
    /\ Answered("/api/sep24/transaction")
    /\ exchange.reply.code = 200
    /\ exchange.responses[2].data.transaction.status = "error"
    /\ transactionStatus = exchange.responses[2].data.transaction

\* C24: the token changes only when a submission is answered with one and when the
\* caller resets; a reset leaves the token empty, the challenge null, the handshake
\* at step 0 and the session's id, URL, status and mode cleared; a reset of the
\* session alone clears these four and keeps the token.
C24_ResetDiscards ==
    [][/\ authToken' # authToken =>
            \/ TokenIssued /\ authToken' = exchange'.reply.body.token
            \/ ResetStep
       /\ ResetStep =>
            /\ authToken' = "" /\ challengeTx' = NULL /\ step' = 0
            /\ transactionId' = "" /\ interactiveUrl' = ""
            /\ transactionStatus' = NULL /\ sep24Mode' = null
       /\ SessionResetStep =>
            /\ transactionId' = "" /\ interactiveUrl' = ""
            /\ transactionStatus' = NULL /\ sep24Mode' = null
            /\ authToken' = authToken]_vars

\* C24's case: the client was reset while a poll of its session was under way.
C24_Witness ==
    /\ step = 0 /\ authToken = "" /\ challengeTx = NULL
    /\ fetching24.route = "/api/sep24/transaction"
    /\ transactionId = "" /\ interactiveUrl = ""
    /\ transactionStatus = NULL /\ sep24Mode = null

\* C25: a challenge request leads to a GET to the auth endpoint the directory
\* advertises, with the request's account and the Origin's domain as the account
\* and client_domain parameters; and on success the challenge the client holds
\* is the transaction and the network passphrase of the Verifier's response.
C25_ChallengeRequest ==
    (Answered("/api/sep10/get-challenge") /\ Len(Calls) >= 2) =>
        /\ Calls[2].method = "GET"
        /\ Calls[2].url = Directory.WEB_AUTH_ENDPOINT
        /\ Calls[2].params = [account |-> exchange.body.account,
                              client_domain |-> CLIENT_DOMAIN]
        /\ exchange.reply.code = 200 =>
              /\ challengeTx.transaction = exchange.responses[2].data.transaction
              /\ challengeTx.network_passphrase
                    = exchange.responses[2].data.network_passphrase

\* C25's case: the client holds a challenge the Verifier issued on Futurenet.
C25_Witness ==
    /\ Answered("/api/sep10/get-challenge")
    /\ exchange.reply.code = 200
    /\ exchange.responses[2].data.network_passphrase = FUTURENET
    /\ challengeTx.network_passphrase = FUTURENET

\* C26: an initiation POSTs to the deposit endpoint of the transfer server for mode
\* deposit and to the withdraw endpoint for mode withdraw, with the bearer token
\* presented and a body of asset_code, account and at most amount; on success the
\* session is at step 2 with the id and the URL of the Verifier's response.
C26_InitiateByMode ==
    (Answered("/api/sep24/start") /\ Len(Calls) = 3) =>
        /\ Calls[3].method = "POST"
        /\ Calls[3].url = Directory.TRANSFER_SERVER_SEP0024
        /\ exchange.body.mode = "deposit" =>
              Calls[3].path = "/transactions/deposit/interactive"
        /\ exchange.body.mode = "withdraw" =>
              Calls[3].path = "/transactions/withdraw/interactive"
        /\ Calls[3].Authorization = exchange.headers.authorization
        /\ {"asset_code", "account"} \subseteq DOMAIN Calls[3].data
        /\ DOMAIN Calls[3].data \subseteq {"asset_code", "account", "amount"}
        /\ Calls[3].data.asset_code = exchange.body.assetCode
        /\ Calls[3].data.account = exchange.body.account
        /\ exchange.reply.code = 200 =>
              /\ sep24Step = 2
              /\ transactionId = exchange.responses[3].data.id
              /\ interactiveUrl = exchange.responses[3].data.url

\* C26's case: a withdrawal was initiated and the session awaits the interaction.
C26_Witness ==
    /\ Answered("/api/sep24/start")
    /\ exchange.body.mode = "withdraw"
    /\ exchange.reply.code = 200
    /\ sep24Step = 2

\* The caller supplied a value for an optional field.
Supplied(x) == x \notin {undefined, ""}

\* C27: the body of the initiation POST has the amount exactly when the request
\* supplied one, and then with the value supplied, zero included.
C27_AmountPassedThrough ==
    (Answered("/api/sep24/start") /\ Len(Calls) = 3) =>
        IF Supplied(exchange.body.amount)
        THEN /\ "amount" \in DOMAIN Calls[3].data
             /\ Calls[3].data.amount = exchange.body.amount
        ELSE "amount" \notin DOMAIN Calls[3].data

\* after is before with exactly one signature more, at the end.
Extends(after, before) ==
    /\ after.kind = before.kind
    /\ after.account = before.account
    /\ after.notAfter = before.notAfter
    /\ Len(after.sigs) = Len(before.sigs) + 1
    /\ \A i \in 1..Len(before.sigs) : after.sigs[i] = before.sigs[i]

\* C28: signing appends: the envelope the client submits is the challenge it holds
\* with one signature more at the end, and the envelope the Origin server posts to
\* the Verifier is the submitted envelope with one signature more at the end.
C28_SigningAppendsOne ==
    /\ fetching.route = "/api/sep10/submit" =>
          Extends(fetching.body.signedTransaction, challengeTx.transaction)
    /\ (Answered("/api/sep10/submit") /\ Len(Calls) = 2) =>
          Extends(Calls[2].data.transaction, exchange.body.signedTransaction)

\* C28's case: the Verifier's signature, the holder's and the Origin server's, in
\* that order, on the envelope posted.
C28_Witness ==
    /\ Answered("/api/sep10/submit")
    /\ Len(Calls) = 2
    /\ Len(Calls[2].data.transaction.sigs) = 3
    /\ Calls[2].data.transaction.sigs[1].signer = VERIFIER_KEY
    /\ Calls[2].data.transaction.sigs[3].signer = OriginKey

\* The text fields of an answer of the Origin server.
AnswerTexts(body) == {body[f] : f \in DOMAIN body \cap {"error", "details", "token"}}
\* The console output of startup and of the exchange just answered.
ConsoleOutput ==
    StartupLog(CLIENT_SIGNING_KEY)
        \o (IF Answered("/api/sep10/submit")
            THEN SubmitLog(exchange.body, CLIENT_SIGNING_KEY,
                           Pad(exchange.responses)[1], Pad(exchange.responses)[2])
            ELSE <<>>)
Range(seq) == {seq[i] : i \in DOMAIN seq}

\* C30: the Origin server's signing key is the one it started with at every step,
\* and a configured key is no text of an answer (error details included) and no
\* text of the console output.
C30_OriginKeyStaysInside ==
    [][/\ CLIENT_SIGNING_KEY' = CLIENT_SIGNING_KEY
       /\ (Truthy(CLIENT_SIGNING_KEY) /\ exchange'.route # "none"
             /\ exchange'.reply # Pending) =>
             /\ CLIENT_SIGNING_KEY \notin AnswerTexts(exchange'.reply.body)
             /\ CLIENT_SIGNING_KEY \notin Range(ConsoleOutput')]_vars

\* C30's case: the Origin server signed with its key, printed its public key and
\* answered with the token.
C30_Witness ==
    /\ Answered("/api/sep10/submit")
    /\ exchange.reply.code = 200
    /\ ValidSeed(CLIENT_SIGNING_KEY)
    /\ OriginKey \in Range(ConsoleOutput)

\* C31: every attempt the client sends to /api/sep10/submit, the first one and
\* each one after a failure, is the stored challenge with one signature more,
\* that of the holder's key, and carries exactly one signature of that key;
\* neither sending an attempt nor its answer changes the stored challenge.
C31_OneSubjectSignaturePerAttempt ==
    [][/\ (fetching.route = "none" /\ fetching'.route = "/api/sep10/submit") =>
             LET sent == fetching'.body.signedTransaction IN
             /\ Extends(sent, challengeTx.transaction)
             /\ LastSignature(sent).signer = PublicOf(secretKey)
             /\ CountSignedBy(sent, PublicOf(secretKey)) = 1
             /\ challengeTx' = challengeTx
       /\ (fetching.route = "/api/sep10/submit" /\ fetching' = NoFetch) =>
             challengeTx' = challengeTx]_vars

\* C31's case: an attempt has failed and the next one can be made; the stored
\* challenge has the Verifier's signature only.
C31_Witness ==
    /\ Answered("/api/sep10/submit")
    /\ exchange.reply.code = 500
    /\ CountSignedBy(exchange.body.signedTransaction, PublicOf(secretKey)) = 1
    /\ Len(challengeTx.transaction.sigs) = 1
    /\ ENABLED handleSignAndSubmit

ChallengeFails ==
    /\ fetching.route = "/api/sep10/get-challenge" /\ fetching' = NoFetch
    /\ exchange'.reply.code # 200
SubmitFails ==
    /\ fetching.route = "/api/sep10/submit" /\ fetching' = NoFetch
    /\ exchange'.reply.code # 200
\* handleSignAndSubmit threw before its fetch.
SignFails ==
    /\ step = 2 /\ fetching = NoFetch /\ fetching' = NoFetch /\ error' # error

\* C32: a failed challenge request leaves the client at step 0 with no challenge
\* and an error; a failed sign or submit leaves it at step 2 with the challenge it
\* had and no token; at step 2 there is a challenge, and a token is held only at
\* step 4 and came from a successful submission.
C32_HandshakeRollback ==
    [][/\ ChallengeFails =>
             step' = 0 /\ challengeTx' = NULL /\ Truthy(error') /\ ~loading'
       /\ (SubmitFails \/ SignFails) =>
             /\ step' = 2 /\ challengeTx # NULL /\ challengeTx' = challengeTx
             /\ authToken' = "" /\ Truthy(error') /\ ~loading'
       /\ step' = 2 => challengeTx' # NULL
       /\ Truthy(authToken') =>
             step' = 4 /\ (authToken' = authToken \/ TokenIssued)]_vars

\* C32's case: the challenge request has failed at the Verifier.
C32_Witness ==
    /\ Answered("/api/sep10/get-challenge")
    /\ Len(Calls) = 2
    /\ exchange.reply.code = 500
    /\ step = 0 /\ challengeTx = NULL
    /\ error = "Failed to get challenge from anchor"

\* C33: each of the four operations sets its loading flag when it sends its
\* request; while a flag is set the operations that share it cannot be started;
\* and, every request being answered, a flag that is set is cleared later on,
\* whether the request succeeded or failed.
C33_LoadingFlags ==
    /\ [][/\ (fetching.route = "none" /\ fetching'.route # "none") => loading'
          /\ (fetching24.route = "none" /\ fetching24'.route # "none") => sep24Loading']_vars
    /\ [](loading => ~ENABLED handleGetChallenge /\ ~ENABLED handleSignAndSubmit)
    /\ [](sep24Loading =>
            /\ ~ENABLED checkTransactionStatus
            /\ \A mode \in {"deposit", "withdraw"} : ~ENABLED startSep24(mode))
    /\ loading ~> ~loading
    /\ sep24Loading ~> ~sep24Loading

\* C33's case: a poll is under way.
C33_Witness ==
    /\ sep24Loading
    /\ fetching24.route = "/api/sep24/transaction"
    /\ ~loading

\* C34: a session with no mode has no id, no interactive URL and is at step 0,
\* whatever answers arrive after a reset.
C34_ResetWinsOverLateAnswers ==
    sep24Mode = null => transactionId = "" /\ interactiveUrl = "" /\ sep24Step = 0

\* C35: a stored status is the status of the current session's transaction.
C35_StatusOfCurrentSession ==
    transactionStatus # NULL => transactionStatus.id = transactionId

\* C36: an initiation makes its calls in the order directory GET, GET /info of
\* the transfer server, initiation POST; when /info fails there is no POST and
\* the initiation fails; and only the POST carries the bearer token.
C36_InitiationCallOrder ==
    Answered("/api/sep24/start") =>
        /\ Len(Calls) <= 3
        /\ Len(Calls) >= 1 => Calls[1].method = "GET" /\ Calls[1].url = tomlUrl
        /\ Len(Calls) >= 2 =>
              /\ Calls[2].method = "GET"
              /\ Calls[2].url = Directory.TRANSFER_SERVER_SEP0024
              /\ Calls[2].path = "/info"
        /\ Len(Calls) = 3 =>
              /\ Calls[3].method = "POST"
              /\ Calls[3].url = Directory.TRANSFER_SERVER_SEP0024
              /\ exchange.responses[2].kind = "ok"
        /\ (Len(Calls) >= 2 /\ exchange.responses[2].kind # "ok") =>
              Len(Calls) = 2 /\ exchange.reply.code = 500
        /\ \A i \in DOMAIN Calls : "Authorization" \in DOMAIN Calls[i] => i = 3

\* C36's case: /info failed and the initiation was given up.
C36_Witness ==
    /\ Answered("/api/sep24/start")
    /\ Len(Calls) = 2
    /\ exchange.responses[2] = NetError
    /\ exchange.reply.body.error = "Failed to start deposit"

\* C37: an initiation POST goes to the withdraw endpoint only for mode withdraw
\* and to the deposit endpoint only for mode deposit; a request with another
\* mode leads to no initiation POST.
C37_EndpointOnlyForItsMode ==
    Answered("/api/sep24/start") =>
        /\ \A i \in PostsOf("/api/sep24/start") :
              /\ Calls[i].path = "/transactions/withdraw/interactive" =>
                    exchange.body.mode = "withdraw"
              /\ Calls[i].path = "/transactions/deposit/interactive" =>
                    exchange.body.mode = "deposit"
        /\ exchange.body.mode \notin {"deposit", "withdraw"} =>
              PostsOf("/api/sep24/start") = {}

\* A new session is started.
SessionStartStep == sep24Mode = null /\ sep24Mode' # null

\* C38: at session step 4 no poll can be started, and the step and the status
\* change only by a reset, a session reset or the start of a new session.
C38_CompletedIsAbsorbing ==
    /\ [](sep24Step = 4 => ~ENABLED checkTransactionStatus)
    /\ [][(sep24Step = 4
            /\ (sep24Step' # sep24Step \/ transactionStatus' # transactionStatus)) =>
             ResetStep \/ SessionResetStep \/ SessionStartStep]_vars

\* C38's case: a poll of a withdrawal has returned completed and nothing is
\* under way.
C38_Witness ==
    /\ sep24Step = 4
    /\ sep24Mode = "withdraw"
    /\ transactionStatus # NULL
    /\ transactionStatus.status = "completed"
    /\ fetching24 = NoFetch
    /\ ENABLED resetSep24

\* The settings the Origin server runs with.
Configuration == [HOME_DOMAIN |-> HOME_DOMAIN, CLIENT_DOMAIN |-> CLIENT_DOMAIN]

\* C39: given the settings, the key, the request and the responses of the
\* exchange just answered, the handshake handlers of the SEP-10-only variant make
\* the same calls in the same order and give the same status code and body.
C39_VariantsAgreeOnHandshake ==
    /\ Answered("/api/sep10/get-challenge") =>
          GetChallengeHandler0(Configuration, exchange.body,
                               Pad(exchange.responses)[1], Pad(exchange.responses)[2])
             = exchange.reply
    /\ Answered("/api/sep10/submit") =>
          SubmitHandler0(Configuration, exchange.body, CLIENT_SIGNING_KEY,
                         Pad(exchange.responses)[1], Pad(exchange.responses)[2])
             = exchange.reply

\* C39's case: a submission with a malformed envelope, which both variants
\* answer without a call.
C39_Witness ==
    /\ Answered("/api/sep10/submit")
    /\ exchange.body.signedTransaction = Garbage
    /\ Truthy(CLIENT_SIGNING_KEY)
    /\ exchange.reply.code = 500
    /\ Calls = <<>>

====
